---- MODULE Spec2Model ----
(***************************************************************************)
(* OpenSmoothScroll: the interception-and-animation engine                 *)
(* (src/smooth_scroll_engine.py) and the per-application parameter         *)
(* resolution (src/config.py).                                             *)
(*                                                                         *)
(* Representation.  Python floats are fixed-point integers with Q units    *)
(* per 1.0: velocities, targets, positions, progress and eased values are  *)
(* all in Q-ths.  Emitted wheel deltas are whole pixels (Python int).      *)
(* Times are integer milliseconds of time.perf_counter().  Strings are     *)
(* sequences of one-character strings.                                     *)
(***************************************************************************)
EXTENDS Integers, Sequences, FiniteSets, TLC

\* ------------------------------------------------------------------------
\* Arithmetic helpers
\* ------------------------------------------------------------------------
Q == 1000

Abs(x) == IF x < 0 THEN -x ELSE x

Min(a, b) == IF a < b THEN a ELSE b

Max(a, b) == IF a > b THEN a ELSE b

\* Python int(x / d): truncation toward zero.
Trunc(x, d) == IF x >= 0 THEN x \div d ELSE -((-x) \div d)

\* Python round() of x Q-ths to a whole number: nearest, ties to even.
Round(x) ==
    LET m  == Abs(x)
        f  == m \div Q
        r  == m % Q
        up == IF 2 * r > Q THEN f + 1
              ELSE IF 2 * r < Q THEN f
              ELSE IF f % 2 = 0 THEN f ELSE f + 1
    IN  IF x < 0 THEN -up ELSE up

\* ------------------------------------------------------------------------
\* Win32 constants
\* ------------------------------------------------------------------------
WM_MOUSEMOVE == 512
WM_MOUSEWHEEL == 522
WM_MOUSEHWHEEL == 526
INJECTED_FLAG == 48879
WHEEL_DELTA == 120

\* ------------------------------------------------------------------------
\* Strings: sequences of characters; str.lower() and rsplit("\\", 1)[-1]
\* ------------------------------------------------------------------------
LowerChar(c) ==
    CASE c = "A" -> "a"
      [] c = "B" -> "b"
      [] c = "E" -> "e"
      [] OTHER   -> c

Lower(s) == [i \in 1..Len(s) |-> LowerChar(s[i])]

RECURSIVE LastSep(_, _)
\* index of the last path separator in s[1..i], 0 when there is none
LastSep(s, i) ==
    IF i = 0 THEN 0
    ELSE IF s[i] = "\\" THEN i
    ELSE LastSep(s, i - 1)

BaseName(s) == SubSeq(s, LastSep(s, Len(s)) + 1, Len(s))

\* ------------------------------------------------------------------------
\* Easing kernel
\* ------------------------------------------------------------------------
RECURSIVE ExpSeries(_, _, _, _)
\* sum_{i >= n} (-y)^i / i!  given term = (-y)^(n-1)/(n-1)!, in Q-ths
ExpSeries(y, n, term, acc) ==
    IF n > 12 \/ term = 0 THEN acc
    ELSE CHOOSE r \in {ExpSeries(y, n + 1, t, acc + t) :
                          t \in {Trunc(-(term * y), n * Q)}} : TRUE

\* x * x in Q-ths, x taken once
Sq(x) == CHOOSE r \in {(v * v) \div Q : v \in {x}} : TRUE

\* math.exp(-x / Q) in Q-ths, x >= 0: exp(-x/16) by its series, raised to 16
ExpNeg(x) ==
    LET s == ExpSeries(x \div 16, 1, Q, Q)
    IN  Max(0, Sq(Sq(Sq(Sq(s)))))

\* the curve without its normalisation by 1 - e^(-k)
custom_ease_unnormalised(t, tail_ratio) ==
    LET k0 == (24 * Q * Q) \div (tail_ratio + Q)
        k  == IF k0 < 1 THEN 1 ELSE k0
    IN  Q - ExpNeg((k * t) \div Q)

custom_ease(t, tail_ratio) ==
    LET k0 == (24 * Q * Q) \div (tail_ratio + Q)
        k  == IF k0 < 1 THEN 1 ELSE k0
        numerator   == Q - ExpNeg((k * t) \div Q)
        denominator == Q - ExpNeg(k)
    IN  (numerator * Q) \div denominator

\* ------------------------------------------------------------------------
\* Settings (config.ScrollSettings) and the per-application resolution
\* ------------------------------------------------------------------------
ParamKeys == {"step_size", "animation_time", "acceleration_delta",
              "acceleration_max", "tail_head_ratio"}

NoOverrides == [x \in {} |-> 0]

\* An application "ba" with its own parameters (a sparse override)
AppOverrides ==
    [k \in {<<"b", "a">>} |->
        [p \in {"step_size", "animation_time", "acceleration_max"} |->
            CASE p = "step_size"        -> 1
              [] p = "animation_time"   -> 0
              [] p = "acceleration_max" -> Q]]

BaseSettings ==
    [step_size |-> 3, animation_time |-> 8, acceleration_delta |-> 50,
     acceleration_max |-> 3 * Q, tail_head_ratio |-> 4 * Q,
     animation_easing |-> TRUE, shift_horizontal |-> TRUE,
     horizontal_smoothness |-> TRUE, blacklist |-> <<>>,
     per_app_settings |-> NoOverrides, enabled |-> TRUE]

\* "AB" is excluded, "ba" has its own parameters
AppSettings ==
    [BaseSettings EXCEPT !.blacklist = << <<"A", "B">> >>,
                         !.per_app_settings = AppOverrides]

PlainSettings ==
    [BaseSettings EXCEPT !.animation_easing = FALSE,
                         !.shift_horizontal = FALSE,
                         !.horizontal_smoothness = FALSE]

\* Shift+wheel scrolls sideways, without the horizontal animator
ShiftDirectSettings == [BaseSettings EXCEPT !.horizontal_smoothness = FALSE]

DisabledSettings == [BaseSettings EXCEPT !.enabled = FALSE]

WideSettings == [BaseSettings EXCEPT !.acceleration_delta = 400]

SettingsPool == {BaseSettings, AppSettings, PlainSettings, DisabledSettings}

\* dict.update(): the keys of ov replace or extend those of base
DictUpdate(base, ov) ==
    [k \in (DOMAIN base) \cup (DOMAIN ov) |->
        IF k \in DOMAIN ov THEN ov[k] ELSE base[k]]

\* a lookup by the name as given
get_app_settings_exact(s, exe_name) ==
    LET base == [k \in ParamKeys |-> s[k]]
    IN  IF exe_name # <<>> /\ exe_name \in DOMAIN s.per_app_settings
        THEN DictUpdate(base, s.per_app_settings[exe_name])
        ELSE base

get_app_settings(s, exe_name) ==
    LET base == [k \in ParamKeys |-> s[k]]
    IN  IF exe_name # <<>> /\ Lower(exe_name) \in DOMAIN s.per_app_settings
        THEN DictUpdate(base, s.per_app_settings[Lower(exe_name)])
        ELSE base

\* ------------------------------------------------------------------------
\* The environment: foreground window and process table
\* ------------------------------------------------------------------------
\* pid |-> whether OpenProcess / QueryFullProcessImageNameW succeed, and the
\* full image path
ProcTable ==
    [pid \in {1, 2, 3, 4} |->
        CASE pid = 1 -> [open |-> TRUE, query |-> TRUE, raises |-> FALSE, path |-> <<"d", "\\", "a", "B">>]
          [] pid = 2 -> [open |-> TRUE, query |-> TRUE, raises |-> FALSE, path |-> <<"d", "\\", "B", "a">>]
          [] pid = 3 -> [open |-> FALSE, query |-> FALSE, raises |-> FALSE, path |-> <<>>]
          [] pid = 4 -> [open |-> TRUE, query |-> FALSE, raises |-> FALSE, path |-> <<>>]]

\* GetForegroundWindow() / GetWindowThreadProcessId() results
Foregrounds ==
    { [hwnd |-> 0, pid |-> 0], [hwnd |-> 1, pid |-> 0],
      [hwnd |-> 1, pid |-> 1], [hwnd |-> 1, pid |-> 2], [hwnd |-> 1, pid |-> 3],
      [hwnd |-> 1, pid |-> 4] }

\* ------------------------------------------------------------------------
\* Bounds of the model
\* ------------------------------------------------------------------------
MaxStarts == 2

\* ------------------------------------------------------------------------
\* State
\* ------------------------------------------------------------------------
Axes == {"v", "h"}

VARIABLES
    settings,            \* self.settings
    foreground,          \* environment: the foreground window
    processes,           \* environment: the process table, by pid
    process_name_cache,  \* self._process_name_cache, in insertion order
    running,             \* self._running
    hook_handle,         \* self._hook_handle is set
    hook_thread,         \* position of the hook worker (_hook_loop)
    quit_posted,         \* a WM_QUIT is in the hook worker's message queue
    status_reported,     \* the argument of the last call of _on_status_change
    now,                 \* time.perf_counter(), in ms
    last_scroll_time,    \* self._last_scroll_time
    scroll_velocity,     \* self._scroll_velocity
    target_scroll,       \* self._target_scroll_{v,h}
    current_scroll,      \* self._current_scroll_{v,h}
    animating,           \* self._animating_{v,h}
    animation_start,     \* self._animation_start_{v,h}
    current_app_params,  \* self._current_app_params_{v,h}
    worker,              \* per axis: the animator thread's position and locals
    last_input,          \* the INPUT most recently handed to SendInput
    hook_result,         \* history: the last hook callback's event and outcome
    run,                 \* history: per axis, the animation run in progress
    done,                \* history: per axis, the last run that terminated
    nsent,               \* history: number of SendInput calls
    nevents,             \* history: number of hook callbacks
    nstarts,             \* history: number of start() calls that took effect
    probe,               \* a direct call of one method: its name, argument, result
    threads,             \* the threads inside start(), stop() and toggle(), and
                         \* the hook threads, when followed statement by statement
    animation_lock       \* self._animation_lock: the thread inside a with block

vars == <<settings, foreground, processes, process_name_cache, running, hook_handle,
          hook_thread, quit_posted, status_reported, now, last_scroll_time, scroll_velocity,
          target_scroll, current_scroll, animating, animation_start,
          current_app_params, worker, last_input, hook_result, run, done,
          nsent, nevents, nstarts, probe, threads, animation_lock>>

env_vars == <<foreground, processes>>

engine_vars == <<running, hook_handle, hook_thread, quit_posted, status_reported,
                 nstarts, threads>>
accel_vars == <<last_scroll_time, scroll_velocity>>
axis_vars == <<target_scroll, current_scroll, animating, animation_start,
               current_app_params>>
hist_vars == <<hook_result, run, done, nsent, nevents, last_input>>

\* Python None / an empty dict as parameters: both are falsy
NoParams == [x \in {} |-> 0]

\* before the first SendInput (nsent = 0) and the first callback (nevents = 0)
NoInput == [mouseData |-> 0, horizontal |-> FALSE, dwExtraInfo |-> 0]

NoEvent == [nCode |-> 0, wParam |-> 0, mouseData |-> 0, dwExtraInfo |-> 0,
            ctrl |-> FALSE, shift |-> FALSE]

IdleWorker ==
    [pc |-> "none", anim_time |-> 0, tail_ratio |-> 0,
     accumulated_remainder |-> 0, total_target |-> 0, current |-> 0,
     start_time |-> 0, int_delta |-> 0, progress |-> 0, sleep_until |-> 0]

\* a run: the enqueues (their number, the sum of their amounts, whether one
\* took the reversal branch, whether their signs differ) and the pixels
\* emitted between an axis leaving idle and its worker ending; whether stop()
\* was called meanwhile, and the frames computed with the running flag clear
\* since it was last set
NoRun == [n |-> 0, amount |-> 0, emitted |-> 0, reversal |-> FALSE,
          mixed |-> FALSE, first |-> 0, stopped |-> FALSE, late |-> 0]

\* held: the process handles the calls so far have opened and not closed
NoProbe == [op |-> "none", arg |-> <<>>, out |-> <<>>, held |-> 0]

\* the threads that call the facade
Callers == {"tray", "ui"}

\* no caller inside a method, no hook thread created yet; hook_thread,
\* hook_thread_id and hook_handle name a hook thread by its place in hook,
\* 0 for None. A caller's history: the method it called last, the running
\* state toggle() found and the value it returned, the number of hook
\* threads at the time of the call, the same for the call before, and the
\* number of its calls
NoThreads ==
    [caller |-> [c \in Callers |->
                    [pc |-> "idle", op |-> "none", found |-> FALSE, ret |-> FALSE,
                     mark |-> 0, op0 |-> "none", found0 |-> FALSE, mark0 |-> 0,
                     calls |-> 0]],
     hook |-> <<>>, hook_thread |-> 0, hook_thread_id |-> 0, hook_handle |-> 0]

\* the last callback: its event, the check that decided it, what it returned,
\* and for an accepted event the time since the previous one, the velocity
\* before it, the amount computed and where the amount went
NoResult == [ev |-> NoEvent, reason |-> "none", ret |-> "none", route |-> "none",
             amount |-> 0, gap |-> 0, v0 |-> 0]

\* cache_max_size and the decay window, gain and frame rate of the engine
cache_max_size == 128
DECAY_WINDOW == 300
GAIN == (8 * Q) \div 10
FRAME_INTERVAL == 1000 \div 240

\* __init__: the engine as constructed
InitEngine ==
    /\ process_name_cache = <<>>
    /\ running = FALSE
    /\ hook_handle = FALSE
    /\ hook_thread = "none"
    /\ quit_posted = FALSE
    /\ status_reported = FALSE
    /\ now = 1000
    /\ last_scroll_time = 0
    /\ scroll_velocity = Q
    /\ target_scroll = [a \in Axes |-> 0]
    /\ current_scroll = [a \in Axes |-> 0]
    /\ animating = [a \in Axes |-> FALSE]
    /\ animation_start = [a \in Axes |-> 0]
    /\ current_app_params = [a \in Axes |-> NoParams]
    /\ worker = [a \in Axes |-> IdleWorker]
    /\ last_input = NoInput
    /\ hook_result = NoResult
    /\ run = [a \in Axes |-> NoRun]
    /\ done = [a \in Axes |-> NoRun]
    /\ nsent = 0
    /\ nevents = 0
    /\ nstarts = 0
    /\ probe = NoProbe
    /\ threads = NoThreads
    /\ animation_lock = "free"

Init ==
    /\ settings \in SettingsPool
    /\ foreground \in Foregrounds
    /\ processes = ProcTable
    /\ InitEngine

\* ------------------------------------------------------------------------
\* Process-name resolver
\* ------------------------------------------------------------------------
CacheHas(cache, pid) == \E i \in 1..Len(cache) : cache[i].pid = pid

CacheGet(cache, pid) ==
    LET i == CHOOSE j \in 1..Len(cache) : cache[j].pid = pid
    IN  cache[i].name

\* an overflow rule that drops the newer half of the cache
CachePut_dropping_newest(cache, pid, exe_name) ==
    LET kept == IF Len(cache) >= cache_max_size
                THEN SubSeq(cache, 1, cache_max_size \div 2)
                ELSE cache
    IN  Append(kept, [pid |-> pid, name |-> exe_name])

\* the write into the cache, with the overflow rule
CachePut(cache, pid, exe_name) ==
    LET kept == IF Len(cache) >= cache_max_size
                THEN SubSeq(cache, (cache_max_size \div 2) + 1, Len(cache))
                ELSE cache
    IN  Append(kept, [pid |-> pid, name |-> exe_name])

\* a resolver that leaves a failed lookup out of the cache
get_process_name_by_pid_failures_uncached(procs, cache, pid) ==
    IF CacheHas(cache, pid)
    THEN [name |-> CacheGet(cache, pid), cache |-> cache, opened |-> FALSE, held |-> 0]
    ELSE LET p == procs[pid]
         IN  IF p.open /\ ~p.raises /\ p.query
             THEN [name |-> Lower(BaseName(p.path)),
                   cache |-> CachePut(cache, pid, Lower(BaseName(p.path))),
                   opened |-> TRUE, held |-> 0]
             ELSE [name |-> <<>>, cache |-> cache, opened |-> TRUE, held |-> 0]

\* a resolver that closes the handle after the read, with no finally: the
\* read's exception skips the close
get_process_name_by_pid_closing_after_read(procs, cache, pid) ==
    IF CacheHas(cache, pid)
    THEN [name |-> CacheGet(cache, pid), cache |-> cache, opened |-> FALSE, held |-> 0]
    ELSE LET p == procs[pid]
             handle == p.open
             read == handle /\ ~p.raises /\ p.query
             closed == handle /\ ~p.raises
             exe_name == IF read THEN Lower(BaseName(p.path)) ELSE <<>>
         IN  [name |-> exe_name, cache |-> CachePut(cache, pid, exe_name),
              opened |-> TRUE, held |-> IF handle /\ ~closed THEN 1 ELSE 0]

\* _get_process_name_by_pid: the name returned, the cache afterwards,
\* whether OpenProcess was called, and the handles left open. OpenProcess
\* gives a handle or none; with a handle, the read of the image name
\* succeeds, fails or raises, and the finally block closes the handle
get_process_name_by_pid(procs, cache, pid) ==
    IF CacheHas(cache, pid)
    THEN [name |-> CacheGet(cache, pid), cache |-> cache, opened |-> FALSE, held |-> 0]
    ELSE LET p == procs[pid]
             handle == p.open
             read == handle /\ ~p.raises /\ p.query
             closed == handle
             exe_name == IF read THEN Lower(BaseName(p.path)) ELSE <<>>
         IN  [name |-> exe_name, cache |-> CachePut(cache, pid, exe_name),
              opened |-> TRUE, held |-> IF handle /\ ~closed THEN 1 ELSE 0]

\* an answer of "excluded" whenever the foreground executable is not known
is_foreground_blacklisted_strict(s, procs, fg, cache) ==
    IF fg.hwnd = 0 \/ fg.pid = 0
    THEN [result |-> TRUE, cache |-> cache]
    ELSE LET lk == get_process_name_by_pid(procs, cache, fg.pid)
             blacklist_lower == {Lower(s.blacklist[i]) : i \in 1..Len(s.blacklist)}
         IN  IF lk.name = <<>>
             THEN [result |-> TRUE, cache |-> lk.cache]
             ELSE [result |-> lk.name \in blacklist_lower, cache |-> lk.cache]

\* a comparison with the exclusion list as stored
is_foreground_blacklisted_raw(s, procs, fg, cache) ==
    IF fg.hwnd = 0 \/ fg.pid = 0
    THEN [result |-> FALSE, cache |-> cache]
    ELSE LET lk == get_process_name_by_pid(procs, cache, fg.pid)
             blacklist_raw == {s.blacklist[i] : i \in 1..Len(s.blacklist)}
         IN  IF lk.name = <<>>
             THEN [result |-> FALSE, cache |-> lk.cache]
             ELSE [result |-> lk.name \in blacklist_raw, cache |-> lk.cache]

\* _is_foreground_blacklisted: the answer and the cache afterwards
is_foreground_blacklisted(s, procs, fg, cache) ==
    IF fg.hwnd = 0 \/ fg.pid = 0
    THEN [result |-> FALSE, cache |-> cache]
    ELSE LET lk == get_process_name_by_pid(procs, cache, fg.pid)
             blacklist_lower == {Lower(s.blacklist[i]) : i \in 1..Len(s.blacklist)}
         IN  IF lk.name = <<>>
             THEN [result |-> FALSE, cache |-> lk.cache]
             ELSE [result |-> lk.name \in blacklist_lower, cache |-> lk.cache]

\* _get_foreground_app_params: the parameters and the cache afterwards
get_foreground_app_params(s, procs, fg, cache) ==
    IF fg.hwnd = 0 \/ fg.pid = 0
    THEN [params |-> get_app_settings(s, <<>>), cache |-> cache]
    ELSE LET lk == get_process_name_by_pid(procs, cache, fg.pid)
         IN  [params |-> get_app_settings(s, lk.name), cache |-> lk.cache]

\* ------------------------------------------------------------------------
\* Accelerator
\* ------------------------------------------------------------------------
\* dict.get(key, default)
Get(d, key, default) == IF key \in DOMAIN d THEN d[key] ELSE default

\* a decay that takes four times the window to complete
next_velocity_slow_decay(velocity, time_since_last, accel_delta, accel_max) ==
    IF time_since_last < accel_delta
    THEN LET accel_factor == Q - ((time_since_last * Q) \div accel_delta)
         IN  Min(velocity + ((accel_factor * GAIN) \div Q), accel_max)
    ELSE LET decay == Min((time_since_last * Q) \div (4 * DECAY_WINDOW), Q)
         IN  Max(Q, (velocity * (Q - decay)) \div Q)

\* the velocity after an event that arrives time_since_last ms after the
\* previous one
next_velocity(velocity, time_since_last, accel_delta, accel_max) ==
    IF time_since_last < accel_delta
    THEN LET accel_factor == Q - ((time_since_last * Q) \div accel_delta)
         IN  Min(velocity + ((accel_factor * GAIN) \div Q), accel_max)
    ELSE LET decay == Min((time_since_last * Q) \div DECAY_WINDOW, Q)
         IN  Max(Q, (velocity * (Q - decay)) \div Q)

\* _calculate_scroll_amount: the amount returned, and the accelerator state
\* it leaves
calculate_scroll_amount(delta, app_params, s, t, last, velocity) ==
    LET time_since_last == t - last
        direction == IF delta > 0 THEN 1 ELSE -1
        step_size == Get(app_params, "step_size", s.step_size)
        base_amount == step_size * direction
        accel_delta == Get(app_params, "acceleration_delta", s.acceleration_delta)
        accel_max == Get(app_params, "acceleration_max", s.acceleration_max)
        v == next_velocity(velocity, time_since_last, accel_delta, accel_max)
    IN  [amount |-> base_amount * v, velocity |-> v, last |-> t]

\* ------------------------------------------------------------------------
\* Enqueue (_add_smooth_scroll_v / _add_smooth_scroll_h)
\* ------------------------------------------------------------------------
\* whether the enqueue takes the direction-reversal branch
IsReversal(target, current, amount) ==
    LET remaining == target - current
    IN  remaining # 0 /\ ((amount > 0) # (remaining > 0))

\* a reversal that adds the new amount to the old target
add_smooth_scroll_summing(target, current, is_animating, velocity, amount, t) ==
    [target    |-> target + amount,
     current   |-> 0,
     velocity  |-> IF IsReversal(target, current, amount) THEN Q ELSE velocity,
     animating |-> TRUE,
     start     |-> t,
     spawn     |-> ~is_animating,
     reversal  |-> IsReversal(target, current, amount)]

\* an enqueue that starts a worker thread every time
add_smooth_scroll_always_spawning(target, current, is_animating, velocity, amount, t) ==
    LET rev == IsReversal(target, current, amount)
    IN  [target    |-> IF rev THEN amount ELSE target + amount,
         current   |-> 0,
         velocity  |-> IF rev THEN Q ELSE velocity,
         animating |-> TRUE,
         start     |-> t,
         spawn     |-> TRUE,
         reversal  |-> rev]

\* an enqueue that leaves the emitted position where it was
add_smooth_scroll_keeping_current(target, current, is_animating, velocity, amount, t) ==
    LET rev == IsReversal(target, current, amount)
    IN  [target    |-> IF rev THEN amount ELSE target + amount,
         current   |-> current,
         velocity  |-> IF rev THEN Q ELSE velocity,
         animating |-> TRUE,
         start     |-> t,
         spawn     |-> ~is_animating,
         reversal  |-> rev]

\* the axis state and shared velocity after the enqueue, and whether a
\* worker thread is started
add_smooth_scroll(target, current, is_animating, velocity, amount, t) ==
    LET rev == IsReversal(target, current, amount)
    IN  [target    |-> IF rev THEN amount ELSE target + amount,
         current   |-> 0,
         velocity  |-> IF rev THEN Q ELSE velocity,
         animating |-> TRUE,
         start     |-> t,
         spawn     |-> ~is_animating,
         reversal  |-> rev]

\* ------------------------------------------------------------------------
\* Synthetic-event emission (_send_scroll_event)
\* ------------------------------------------------------------------------
\* an INPUT structure without the marker
send_scroll_event_unmarked(delta, horizontal) ==
    [mouseData |-> delta, horizontal |-> horizontal, dwExtraInfo |-> 0]

\* the INPUT structure built for SendInput; mouseData is the DWORD holding
\* delta, given here by its signed value
send_scroll_event(delta, horizontal) ==
    [mouseData |-> delta, horizontal |-> horizontal, dwExtraInfo |-> INJECTED_FLAG]

\* ------------------------------------------------------------------------
\* Hook dispatcher (_low_level_mouse_proc)
\* ------------------------------------------------------------------------
\* ctypes.c_short(x).value
c_short(x) ==
    LET m == x % 65536
    IN  IF m >= 32768 THEN m - 65536 ELSE m

\* the checks without the exclusion list
Decision_blacklist_ignored(ev, s, blacklisted) ==
    IF ev.nCode < 0 \/ ~s.enabled THEN "disabled"
    ELSE IF ev.wParam \notin {WM_MOUSEWHEEL, WM_MOUSEHWHEEL} THEN "not_wheel"
    ELSE IF ev.dwExtraInfo = INJECTED_FLAG THEN "injected"
    ELSE IF ev.ctrl THEN "ctrl"
    ELSE "accept"

\* The checks of the callback in the order of the code; the name of the
\* first one that lets the event pass, or "accept".  blacklisted is the
\* answer of _is_foreground_blacklisted(), used only when that call is reached.
Decision(ev, s, blacklisted) ==
    IF ev.nCode < 0 \/ ~s.enabled THEN "disabled"
    ELSE IF ev.wParam \notin {WM_MOUSEWHEEL, WM_MOUSEHWHEEL} THEN "not_wheel"
    ELSE IF ev.dwExtraInfo = INJECTED_FLAG THEN "injected"
    ELSE IF s.blacklist # <<>> /\ blacklisted THEN "blacklisted"
    ELSE IF ev.ctrl THEN "ctrl"
    ELSE "accept"

\* whether the callback gets as far as calling _is_foreground_blacklisted()
ReachesBlacklistCheck(ev, s) ==
    /\ ~(ev.nCode < 0 \/ ~s.enabled)
    /\ ev.wParam \in {WM_MOUSEWHEEL, WM_MOUSEHWHEEL}
    /\ ev.dwExtraInfo # INJECTED_FLAG
    /\ s.blacklist # <<>>

\* a routing that looks at the message alone, not at Shift
Route_shift_ignored(ev, s) ==
    IF ev.wParam = WM_MOUSEHWHEEL /\ s.horizontal_smoothness THEN "h"
    ELSE IF ev.wParam = WM_MOUSEHWHEEL THEN "direct"
    ELSE "v"

\* a routing that hands every horizontal event to the horizontal animator
Route_always_smooth(ev, s) ==
    IF \/ ev.wParam = WM_MOUSEHWHEEL
       \/ (s.shift_horizontal /\ ev.wParam # WM_MOUSEHWHEEL /\ ev.shift)
    THEN "h"
    ELSE "v"

\* where an accepted event goes: an animator ("v", "h") or the direct emit
Route(ev, s) ==
    LET is_horizontal ==
            \/ ev.wParam = WM_MOUSEHWHEEL
            \/ (s.shift_horizontal /\ ev.wParam # WM_MOUSEHWHEEL /\ ev.shift)
    IN  IF is_horizontal /\ s.horizontal_smoothness THEN "h"
        ELSE IF is_horizontal THEN "direct"
        ELSE "v"

\* the enqueue on axis a as the callback performs it; thread_ok is whether
\* Thread.start() succeeds (it raises RuntimeError when the system has no
\* thread left), which matters when the axis is idle: the fields are written
\* before the thread is started
Enqueue(a, amount, velocity, params, thread_ok) ==
    LET enq == add_smooth_scroll(target_scroll[a], current_scroll[a],
                                 animating[a], velocity, amount, now)
    IN  /\ target_scroll' = [target_scroll EXCEPT ![a] = enq.target]
        /\ current_scroll' = [current_scroll EXCEPT ![a] = enq.current]
        /\ scroll_velocity' = enq.velocity
        /\ current_app_params' = [current_app_params EXCEPT ![a] = params]
        /\ animating' = [animating EXCEPT ![a] = enq.animating]
        /\ animation_start' = [animation_start EXCEPT ![a] = enq.start]
        /\ worker' = IF enq.spawn /\ thread_ok
                     THEN [worker EXCEPT ![a] = [IdleWorker EXCEPT !.pc = "begin"]]
                     ELSE worker
        /\ run' = [run EXCEPT ![a] =
                     IF enq.spawn
                     THEN [n |-> 1, amount |-> amount, emitted |-> 0,
                           reversal |-> enq.reversal, mixed |-> FALSE,
                           first |-> amount, stopped |-> FALSE, late |-> 0]
                     ELSE [@ EXCEPT !.n = @ + 1, !.amount = @ + amount,
                                    !.reversal = @ \/ enq.reversal,
                                    !.mixed = @ \/ ((amount > 0) # (run[a].first > 0))]]

\* a return through CallNextHookEx that also stamps the time of the event
PassThrough_stamping(ev, reason, cache) ==
    /\ process_name_cache' = cache
    /\ hook_result' = [ev |-> ev, reason |-> reason, ret |-> "PASS",
                       route |-> "none", amount |-> 0, gap |-> 0, v0 |-> 0]
    /\ last_scroll_time' = now
    /\ UNCHANGED <<scroll_velocity, axis_vars, worker, last_input, run, done, nsent>>

\* return CallNextHookEx(...): the event goes on to the application
PassThrough(ev, reason, cache) ==
    /\ process_name_cache' = cache
    /\ hook_result' = [ev |-> ev, reason |-> reason, ret |-> "PASS",
                       route |-> "none", amount |-> 0, gap |-> 0, v0 |-> 0]
    /\ UNCHANGED <<accel_vars, axis_vars, worker, last_input, run, done, nsent>>

\* the callback; there is no try/except in it, so an exception raised by a
\* call it makes leaves it at that call ("RAISE")
low_level_mouse_proc(ev, thread_ok) ==
    LET blk == is_foreground_blacklisted(settings, processes, foreground,
                                         process_name_cache)
        cache1 == IF ReachesBlacklistCheck(ev, settings)
                  THEN blk.cache ELSE process_name_cache
        reason == Decision(ev, settings, blk.result)
    IN  IF reason # "accept"
        THEN PassThrough(ev, reason, cache1)
        ELSE LET delta == c_short(ev.mouseData)
                 fp == get_foreground_app_params(settings, processes, foreground, cache1)
                 calc == calculate_scroll_amount(delta, fp.params, settings, now,
                                                 last_scroll_time, scroll_velocity)
                 route == Route(ev, settings)
             IN  /\ process_name_cache' = fp.cache
                 /\ last_scroll_time' = calc.last
                 /\ hook_result' = [ev |-> ev, reason |-> reason,
                                    ret |-> IF /\ route \in Axes
                                               /\ ~animating[route]
                                               /\ ~thread_ok
                                            THEN "RAISE" ELSE "DROP",
                                    route |-> route, amount |-> calc.amount,
                                    gap |-> now - last_scroll_time,
                                    v0 |-> scroll_velocity]
                 /\ done' = done
                 /\ IF route = "direct"
                    THEN /\ last_input' = send_scroll_event(Trunc(calc.amount, Q), TRUE)
                         /\ nsent' = nsent + 1
                         /\ scroll_velocity' = calc.velocity
                         /\ UNCHANGED <<axis_vars, worker, run>>
                    ELSE /\ Enqueue(route, calc.amount, calc.velocity, fp.params,
                                    thread_ok)
                         /\ UNCHANGED <<last_input, nsent>>

\* a wheel or mouse event of the user reaches the installed hook
HookEvent(ev) ==
    /\ hook_handle /\ hook_thread = "wait"
    /\ nevents' = nevents + 1
    /\ low_level_mouse_proc(ev, TRUE)
    /\ UNCHANGED <<probe, animation_lock, settings, env_vars, engine_vars, now>>

\* the same, when the system cannot start the animator thread the callback
\* asks for
HookEventThreadFails(ev) ==
    /\ hook_handle /\ hook_thread = "wait"
    /\ nevents' = nevents + 1
    /\ low_level_mouse_proc(ev, FALSE)
    /\ hook_result'.ret = "RAISE"
    /\ UNCHANGED <<probe, animation_lock, settings, env_vars, engine_vars, now>>

\* the event injected by the last SendInput reaches the installed hook
HookReentry ==
    /\ hook_handle /\ hook_thread = "wait"
    /\ nsent > 0
    /\ nevents' = nevents
    /\ \E k \in BOOLEAN :
         low_level_mouse_proc(
            [nCode |-> 0,
             wParam |-> IF last_input.horizontal THEN WM_MOUSEHWHEEL ELSE WM_MOUSEWHEEL,
             mouseData |-> last_input.mouseData % 65536,
             dwExtraInfo |-> last_input.dwExtraInfo,
             ctrl |-> k, shift |-> FALSE], TRUE)
    /\ UNCHANGED <<probe, animation_lock, settings, env_vars, engine_vars, now>>

\* ------------------------------------------------------------------------
\* Axis animator (_animate_scroll), one worker thread per axis
\* ------------------------------------------------------------------------
\* the animation time and tail ratio the worker captures when it starts
WorkerParams(app_params, s) ==
    IF DOMAIN app_params # {}
    THEN [anim_time  |-> Get(app_params, "animation_time", s.animation_time),
          tail_ratio |-> Get(app_params, "tail_head_ratio", s.tail_head_ratio)]
    ELSE [anim_time |-> s.animation_time, tail_ratio |-> s.tail_head_ratio]

\* progress of the animation, elapsed ms after its start
Progress(elapsed, anim_time) ==
    LET duration == IF anim_time <= 0 THEN 1 ELSE anim_time
    IN  IF elapsed >= duration THEN Q ELSE (elapsed * Q) \div duration

\* a frame that applies the curve whatever animation_easing says
Eased_always_curved(progress, tail_ratio, easing) ==
    custom_ease(progress, tail_ratio)

Eased(progress, tail_ratio, easing) ==
    IF easing THEN custom_ease(progress, tail_ratio) ELSE progress

\* one frame's arithmetic: the whole pixels to emit and the carry kept
FrameDelta(total_target, current, eased, accumulated_remainder) ==
    LET target_pos == Trunc(total_target * eased, Q)
        delta == (target_pos - current) + accumulated_remainder
    IN  CHOOSE f \in {[int_delta |-> Trunc(d, Q), remainder |-> d - Trunc(d, Q) * Q] :
                          d \in {delta}} : TRUE

\* the residue emitted when the animation ends
FinalRemaining(remaining, int_delta) == Trunc(remaining - int_delta * Q, Q)

\* the stop condition at the top of a frame
Negligible(remaining) == 2 * Abs(remaining) < Q

\* SendInput of one synthetic event by the worker of axis a
Emit(a, delta) ==
    /\ last_input' = send_scroll_event(delta, a = "h")
    /\ nsent' = nsent + 1

\* an end of the worker thread that leaves the animating flag set
ResetAxis_keeping_flag(a) ==
    /\ target_scroll' = [target_scroll EXCEPT ![a] = 0]
    /\ current_scroll' = [current_scroll EXCEPT ![a] = 0]
    /\ animating' = animating
    /\ worker' = [worker EXCEPT ![a] = IdleWorker]

\* an end of the worker thread that clears the fields of both axes
ResetAxis_clearing_both(a) ==
    /\ target_scroll' = [b \in Axes |-> 0]
    /\ current_scroll' = [b \in Axes |-> 0]
    /\ animating' = [b \in Axes |-> FALSE]
    /\ worker' = [worker EXCEPT ![a] = IdleWorker]

\* target = 0, current = 0, animating = False; the worker thread ends
ResetAxis(a) ==
    /\ target_scroll' = [target_scroll EXCEPT ![a] = 0]
    /\ current_scroll' = [current_scroll EXCEPT ![a] = 0]
    /\ animating' = [animating EXCEPT ![a] = FALSE]
    /\ worker' = [worker EXCEPT ![a] = IdleWorker]

\* lines 574-589: the thread starts and captures its parameters
WorkerBegin(a) ==
    /\ worker[a].pc = "begin"
    /\ LET p == WorkerParams(current_app_params[a], settings)
       IN  worker' = [worker EXCEPT ![a].pc = "top",
                                    ![a].anim_time = p.anim_time,
                                    ![a].tail_ratio = p.tail_ratio,
                                    ![a].accumulated_remainder = 0]
    /\ UNCHANGED <<probe, animation_lock, settings, env_vars, process_name_cache,
                   engine_vars, now, accel_vars, axis_vars, hist_vars>>

\* a frame loop that goes on whatever the running flag
WorkerTop_ignoring_running(a) ==
    /\ worker[a].pc = "top"
    /\ worker' = [worker EXCEPT ![a].pc = "frame",
                                ![a].total_target = target_scroll[a],
                                ![a].current = current_scroll[a],
                                ![a].start_time = animation_start[a]]
    /\ UNCHANGED <<probe, animation_lock, settings, env_vars, process_name_cache,
                   engine_vars, now, accel_vars, axis_vars, hist_vars>>

\* lines 591-600: the loop condition and the read under the lock
WorkerTop(a) ==
    /\ worker[a].pc = "top"
    /\ IF running
       THEN worker' = [worker EXCEPT ![a].pc = "frame",
                                     ![a].total_target = target_scroll[a],
                                     ![a].current = current_scroll[a],
                                     ![a].start_time = animation_start[a]]
       ELSE worker' = [worker EXCEPT ![a] = IdleWorker]
    /\ UNCHANGED <<probe, animation_lock, settings, env_vars, process_name_cache,
                   engine_vars, now, accel_vars, axis_vars, hist_vars>>

\* lines 602-647: the stop condition, else the frame's delta and its emission
WorkerFrame(a) ==
    /\ worker[a].pc = "frame"
    /\ LET w == worker[a]
           remaining == w.total_target - w.current
           progress == Progress(now - w.start_time, w.anim_time)
           eased == Eased(progress, w.tail_ratio, settings.animation_easing)
       IN  IF Negligible(remaining)
           THEN /\ ResetAxis(a)
                /\ done' = [done EXCEPT ![a] = run[a]]
                /\ run' = [run EXCEPT ![a] = NoRun]
                /\ UNCHANGED <<animation_start, current_app_params, last_input, nsent>>
           ELSE \E f \in {FrameDelta(w.total_target, w.current, eased,
                                     w.accumulated_remainder)} :
                /\ worker' = [worker EXCEPT
                                ![a].pc = IF f.int_delta # 0 THEN "update" ELSE "final",
                                ![a].int_delta = f.int_delta,
                                ![a].accumulated_remainder = f.remainder,
                                ![a].progress = progress]
                /\ IF f.int_delta # 0
                   THEN /\ Emit(a, f.int_delta)
                        /\ run' = [run EXCEPT ![a].emitted = @ + f.int_delta,
                                              ![a].late = IF running THEN @ ELSE @ + 1]
                   ELSE /\ UNCHANGED <<last_input, nsent>>
                        /\ run' = [run EXCEPT
                                     ![a].late = IF running THEN @ ELSE @ + 1]
                /\ UNCHANGED <<axis_vars, done>>
    /\ UNCHANGED <<probe, animation_lock, settings, env_vars, process_name_cache,
                   engine_vars, now, accel_vars, hook_result, nevents>>

\* lines 648-652: current += int_delta under the lock
WorkerUpdate(a) ==
    /\ worker[a].pc = "update"
    /\ current_scroll' = [current_scroll EXCEPT ![a] = @ + worker[a].int_delta * Q]
    /\ worker' = [worker EXCEPT ![a].pc = "final"]
    /\ UNCHANGED <<probe, animation_lock, settings, env_vars, process_name_cache,
                   engine_vars, now, accel_vars, target_scroll, animating,
                   animation_start, current_app_params, hist_vars>>

\* lines 654-671: the end of the animation, else the frame sleep
WorkerFinal(a) ==
    /\ worker[a].pc = "final"
    /\ LET w == worker[a]
           remaining == w.total_target - w.current
           final_remaining == FinalRemaining(remaining, w.int_delta)
       IN  IF w.progress >= Q
           THEN /\ IF final_remaining # 0
                   THEN /\ Emit(a, final_remaining)
                        /\ done' = [done EXCEPT ![a] =
                                      [run[a] EXCEPT !.emitted = @ + final_remaining]]
                   ELSE /\ UNCHANGED <<last_input, nsent>>
                        /\ done' = [done EXCEPT ![a] = run[a]]
                /\ run' = [run EXCEPT ![a] = NoRun]
                /\ ResetAxis(a)
                /\ UNCHANGED <<animation_start, current_app_params>>
           ELSE /\ worker' = [worker EXCEPT ![a].pc = "sleep",
                                            ![a].sleep_until = now + FRAME_INTERVAL]
                /\ UNCHANGED <<axis_vars, last_input, nsent, run, done>>
    /\ UNCHANGED <<probe, animation_lock, settings, env_vars, process_name_cache,
                   engine_vars, now, accel_vars, hook_result, nevents>>

\* time.sleep(FRAME_INTERVAL) returns
WorkerWake(a) ==
    /\ worker[a].pc = "sleep"
    /\ now >= worker[a].sleep_until
    /\ worker' = [worker EXCEPT ![a].pc = "top", ![a].sleep_until = 0,
                                ![a].int_delta = 0, ![a].progress = 0]
    /\ UNCHANGED <<probe, animation_lock, settings, env_vars, process_name_cache,
                   engine_vars, now, accel_vars, axis_vars, hist_vars>>

\* ------------------------------------------------------------------------
\* Engine facade: start(), stop(), update_settings() and the hook worker
\* ------------------------------------------------------------------------
\* start(): a hook thread is created when none of an earlier start is left
\* (stop() joins it before a later start)
start ==
    /\ ~running
    /\ hook_thread = "none"
    /\ nstarts < MaxStarts
    /\ running' = TRUE
    /\ hook_thread' = "install"
    /\ status_reported' = TRUE
    /\ nstarts' = nstarts + 1
    /\ run' = [a \in Axes |-> [run[a] EXCEPT !.late = 0]]
    /\ UNCHANGED <<probe, animation_lock, threads, settings, env_vars,
                   process_name_cache, hook_handle, quit_posted, now, accel_vars,
                   axis_vars, worker, hook_result, done, nsent, nevents, last_input>>

stop ==
    /\ running
    /\ running' = FALSE
    /\ quit_posted' = hook_handle
    /\ status_reported' = FALSE
    /\ run' = [a \in Axes |-> IF run[a].n > 0
                              THEN [run[a] EXCEPT !.stopped = TRUE, !.late = 0]
                              ELSE run[a]]
    /\ UNCHANGED <<probe, animation_lock, threads, settings, env_vars,
                   process_name_cache, hook_handle, hook_thread, nstarts, now,
                   accel_vars, axis_vars, worker, hook_result, done, nsent, nevents,
                   last_input>>

update_settings(s) ==
    /\ s # settings
    /\ settings' = s
    /\ UNCHANGED <<probe, animation_lock, env_vars, process_name_cache, engine_vars,
                   now, accel_vars, axis_vars, worker, hist_vars>>

\* a failed installation that leaves the running flag set
HookInstall_keeping_running(ok) ==
    /\ hook_thread = "install"
    /\ hook_handle' = ok
    /\ hook_thread' = IF ok THEN "loop" ELSE "none"
    /\ UNCHANGED <<probe, animation_lock, threads, settings, env_vars,
                   process_name_cache, running, quit_posted, status_reported, nstarts,
                   now, accel_vars, axis_vars, worker, hist_vars>>

\* lines 305-319: SetWindowsHookExW succeeds or fails
HookInstall(ok) ==
    /\ hook_thread = "install"
    /\ IF ok
       THEN /\ hook_handle' = TRUE
            /\ hook_thread' = "loop"
            /\ running' = running
       ELSE /\ hook_handle' = FALSE
            /\ hook_thread' = "none"
            /\ running' = FALSE
    /\ UNCHANGED <<probe, animation_lock, threads, settings, env_vars,
                   process_name_cache, quit_posted, status_reported, nstarts, now,
                   accel_vars, axis_vars, worker, hist_vars>>

\* a message loop entered without looking at the running flag
HookLoop_ignoring_running ==
    /\ hook_thread = "loop"
    /\ hook_thread' = "wait"
    /\ UNCHANGED <<probe, animation_lock, threads, settings, env_vars,
                   process_name_cache, running, hook_handle, quit_posted,
                   status_reported, nstarts, now, accel_vars, axis_vars, worker,
                   hist_vars>>

\* line 325: the loop condition
HookLoop ==
    /\ hook_thread = "loop"
    /\ hook_thread' = IF running THEN "wait" ELSE "cleanup"
    /\ UNCHANGED <<probe, animation_lock, threads, settings, env_vars,
                   process_name_cache, running, hook_handle, quit_posted,
                   status_reported, nstarts, now, accel_vars, axis_vars, worker,
                   hist_vars>>

\* lines 326-328: GetMessageW returns 0 for the posted WM_QUIT
HookQuit ==
    /\ hook_thread = "wait"
    /\ quit_posted
    /\ hook_thread' = "cleanup"
    /\ quit_posted' = FALSE
    /\ UNCHANGED <<probe, animation_lock, threads, settings, env_vars,
                   process_name_cache, running, hook_handle, status_reported, nstarts,
                   now, accel_vars, axis_vars, worker, hist_vars>>

\* lines 331-335: unhook and leave
HookCleanup ==
    /\ hook_thread = "cleanup"
    /\ hook_handle' = FALSE
    /\ hook_thread' = "none"
    /\ quit_posted' = FALSE
    /\ UNCHANGED <<probe, animation_lock, threads, settings, env_vars,
                   process_name_cache, running, status_reported, nstarts, now,
                   accel_vars, axis_vars, worker, hist_vars>>

\* ------------------------------------------------------------------------
\* Environment
\* ------------------------------------------------------------------------
Tick(d) ==
    /\ now' = now + d
    /\ UNCHANGED <<probe, animation_lock, settings, env_vars, process_name_cache,
                   engine_vars, accel_vars, axis_vars, worker, hist_vars>>

SwitchForeground(f) ==
    /\ f # foreground
    /\ foreground' = f
    /\ UNCHANGED <<probe, animation_lock, settings, processes, process_name_cache,
                   engine_vars, now, accel_vars, axis_vars, worker, hist_vars>>

\* ------------------------------------------------------------------------
\* Inputs and scenario guards
\* ------------------------------------------------------------------------
\* high word of mouseData: one detent up, one detent down
Detents == {WHEEL_DELTA, 65536 - WHEEL_DELTA}

AllEvents ==
    [nCode : {-1, 0}, wParam : {WM_MOUSEMOVE, WM_MOUSEWHEEL, WM_MOUSEHWHEEL},
     mouseData : Detents, dwExtraInfo : {0, INJECTED_FLAG},
     ctrl : BOOLEAN, shift : BOOLEAN]

\* wheel events of the user with Ctrl up: they pass every check of the
\* dispatcher when the engine is enabled and the foreground is not excluded
CleanEvents ==
    {ev \in AllEvents : /\ ev.nCode = 0
                        /\ ev.wParam \in {WM_MOUSEWHEEL, WM_MOUSEHWHEEL}
                        /\ ev.dwExtraInfo = 0
                        /\ ~ev.ctrl}

\* every combination of the fields the checks read, and every clean event
UserEvents ==
    CleanEvents \cup {ev \in AllEvents : ev.mouseData = WHEEL_DELTA /\ ~ev.shift}

WheelEvents == {ev \in CleanEvents : ~ev.shift}

Other(a) == IF a = "v" THEN "h" ELSE "v"

\* the clock moves while the animator threads sleep or do not exist: a
\* frame's own computation takes no time
Quiet == \A a \in Axes : worker[a].pc \in {"none", "sleep"}

\* all the events of a behaviour drive the same axis
OneAxis(ev) ==
    LET r == Route(ev, settings)
    IN  r = "direct" \/ (run[Other(r)].n = 0 /\ done[Other(r)].n = 0)

Worker(a) ==
    \/ WorkerBegin(a)
    \/ WorkerTop(a)
    \/ WorkerFrame(a)
    \/ WorkerUpdate(a)
    \/ WorkerFinal(a)
    \/ WorkerWake(a)

HookWorker ==
    \/ \E ok \in BOOLEAN : HookInstall(ok)
    \/ HookLoop
    \/ HookQuit
    \/ HookCleanup

\* ------------------------------------------------------------------------
\* Spec: the dispatcher under every kind of event, for each settings object
\* and foreground application
\* ------------------------------------------------------------------------
MaxDispEvents == 2
MaxDispTime == 1004

\* no window, or the excluded application "ab"
DispForegrounds == {f \in Foregrounds : f.hwnd = 0 \/ f.pid = 1}

InitDisp ==
    /\ Init
    /\ foreground \in DispForegrounds

Next ==
    \/ start
    \/ \E ok \in BOOLEAN : HookInstall(ok)
    \/ HookLoop
    \/ (now < MaxDispTime /\ Quiet /\ Tick(FRAME_INTERVAL))
    \/ \E ev \in UserEvents : nevents < MaxDispEvents /\ OneAxis(ev) /\ HookEvent(ev)
    \/ HookReentry
    \/ \E a \in Axes : Worker(a)

Spec == InitDisp /\ [][Next]_vars

\* ------------------------------------------------------------------------
\* SpecAnim: the animators under accepted wheel events, with one
\* application and fixed settings
\* ------------------------------------------------------------------------
MaxAnimEvents == 3
MaxAnimTime == 1016

InitAnim ==
    /\ Init
    /\ settings = BaseSettings
    /\ foreground = [hwnd |-> 0, pid |-> 0]

NextAnim ==
    \/ start
    \/ \E ok \in BOOLEAN : HookInstall(ok)
    \/ HookLoop
    \/ (now < MaxAnimTime /\ Quiet /\ Tick(FRAME_INTERVAL))
    \/ \E ev \in WheelEvents : nevents < MaxAnimEvents /\ OneAxis(ev) /\ HookEvent(ev)
    \/ \E a \in Axes : Worker(a)

SpecAnim == InitAnim /\ [][NextAnim]_vars

\* ------------------------------------------------------------------------
\* SpecAccel: the accelerator under vertical wheel events at varied
\* intervals, while the settings and the foreground application change.
\* The accelerator is read and written by the hook callback alone, so the
\* events and changes are taken between the frames of the animators.
\* ------------------------------------------------------------------------
MaxAccelEvents == 3

\* the time from one event to the next, in ms
Gaps == {20, 60, 300}

\* an event has been handled at this very time: the next interval may elapse
AtEvent == nevents > 0 /\ now = last_scroll_time

AccelSettings == {WideSettings, AppSettings}

\* no window, or the application "ba" with its own parameters
AccelForegrounds == {f \in Foregrounds : f.hwnd = 0 \/ f.pid = 2}

\* one detent up on the vertical wheel
AccelEvents == {ev \in WheelEvents : ev.wParam = WM_MOUSEWHEEL /\ ev.mouseData = WHEEL_DELTA}

InitAccel ==
    /\ settings \in AccelSettings
    /\ foreground \in AccelForegrounds
    /\ processes = ProcTable
    /\ InitEngine

NextAccel ==
    \/ start
    \/ \E ok \in BOOLEAN : HookInstall(ok)
    \/ HookLoop
    \/ \E d \in Gaps : AtEvent /\ Quiet /\ Tick(d)
    \/ \E ev \in AccelEvents :
          nevents < MaxAccelEvents /\ ~AtEvent /\ Quiet /\ HookEvent(ev)
    \/ \E s \in AccelSettings : Quiet /\ update_settings(s)
    \/ \E f \in AccelForegrounds : Quiet /\ SwitchForeground(f)
    \/ \E a \in Axes : Worker(a)

SpecAccel == InitAccel /\ [][NextAccel]_vars

\* ------------------------------------------------------------------------
\* SpecNames: the exclusion list against the foreground executable, for
\* names and list entries in every letter case
\* ------------------------------------------------------------------------
MaxBlacklist == 2
MaxNameEvents == 1
MaxNameTime == 1004

NameSet == { <<"a">>, <<"A">>, <<"b">>, <<"a", "b">>, <<"A", "b">>, <<"a", "B">> }

RECURSIVE NameLists(_)
\* the lists of at most n names
NameLists(n) ==
    IF n = 0 THEN { <<>> }
    ELSE NameLists(n - 1) \cup
         { Append(l, x) : l \in {m \in NameLists(n - 1) : Len(m) = n - 1}, x \in NameSet }

InitNames ==
    /\ \E bl \in NameLists(MaxBlacklist) :
          settings = [BaseSettings EXCEPT !.blacklist = bl]
    /\ foreground = [hwnd |-> 1, pid |-> 1]
    /\ \E e \in NameSet :
          processes = [ProcTable EXCEPT ![1].path = <<"d", "\\">> \o e]
    /\ InitEngine

NextNames ==
    \/ start
    \/ \E ok \in BOOLEAN : HookInstall(ok)
    \/ HookLoop
    \/ (now < MaxNameTime /\ Quiet /\ Tick(FRAME_INTERVAL))
    \/ \E ev \in AccelEvents : nevents < MaxNameEvents /\ HookEvent(ev)
    \/ \E a \in Axes : Worker(a)

SpecNames == InitNames /\ [][NextNames]_vars

\* ------------------------------------------------------------------------
\* SpecResolve: get_app_settings() called directly, for every override
\* table over a few names and every argument
\* ------------------------------------------------------------------------
\* sparse overrides: some of the parameters, with values unlike the global ones
OverrideSet ==
    { [p \in {"step_size"} |-> 7],
      [p \in {"animation_time", "acceleration_max"} |->
          IF p = "animation_time" THEN 9 ELSE 2 * Q],
      [p \in ParamKeys |-> 5] }

\* keys of the override table, as the settings file may hold them
KeySet == { <<"a">>, <<"a", "b">>, <<"A">> }

OverrideTables ==
    UNION { [K -> OverrideSet] : K \in SUBSET KeySet }

\* arguments of the call: "" and names in every letter case
ResolveArgs == { <<>> } \cup NameSet

InitResolve ==
    /\ \E t \in OverrideTables :
          settings = [BaseSettings EXCEPT !.per_app_settings = t]
    /\ foreground = [hwnd |-> 0, pid |-> 0]
    /\ processes = ProcTable
    /\ InitEngine

\* settings.get_app_settings(exe_name), which assigns no attribute
Resolve(exe_name) ==
    /\ probe' = [op |-> "get_app_settings", arg |-> exe_name,
                 out |-> get_app_settings(settings, exe_name), held |-> 0]
    /\ UNCHANGED <<animation_lock, settings, env_vars, process_name_cache, engine_vars,
                   now, accel_vars, axis_vars, worker, hist_vars>>

NextResolve == \E e \in ResolveArgs : Resolve(e)

SpecResolve == InitResolve /\ [][NextResolve]_vars

\* ------------------------------------------------------------------------
\* SpecRoute: accepted wheel events of both messages, with and without
\* Shift, under each combination of shift_horizontal and
\* horizontal_smoothness; both axes may be in flight at once
\* ------------------------------------------------------------------------
MaxRouteEvents == 2
MaxRouteTime == 1004

RouteSettings == {BaseSettings, PlainSettings, ShiftDirectSettings}

\* one detent up, on either wheel, with Shift up or down
RouteEvents == {ev \in CleanEvents : ev.mouseData = WHEEL_DELTA}

InitRoute ==
    /\ settings \in RouteSettings
    /\ foreground = [hwnd |-> 0, pid |-> 0]
    /\ processes = ProcTable
    /\ InitEngine

NextRoute ==
    \/ start
    \/ \E ok \in BOOLEAN : HookInstall(ok)
    \/ HookLoop
    \/ (now < MaxRouteTime /\ Quiet /\ Tick(FRAME_INTERVAL))
    \/ \E ev \in RouteEvents : nevents < MaxRouteEvents /\ HookEvent(ev)
    \/ \E a \in Axes : Worker(a)

SpecRoute == InitRoute /\ [][NextRoute]_vars

\* ------------------------------------------------------------------------
\* SpecFault: accepted wheel events while the system may refuse to start a
\* thread
\* ------------------------------------------------------------------------
MaxFaultEvents == 2
MaxFaultTime == 1008

NextFault ==
    \/ start
    \/ \E ok \in BOOLEAN : HookInstall(ok)
    \/ HookLoop
    \/ (now < MaxFaultTime /\ Quiet /\ Tick(FRAME_INTERVAL))
    \/ \E ev \in RouteEvents : nevents < MaxFaultEvents /\ HookEvent(ev)
    \/ \E ev \in RouteEvents : nevents < MaxFaultEvents /\ HookEventThreadFails(ev)
    \/ \E a \in Axes : Worker(a)

SpecFault == InitAnim /\ [][NextFault]_vars

\* ------------------------------------------------------------------------
\* SpecForeground: vertical wheel events under every foreground the system
\* calls can report, with and without an exclusion list
\* ------------------------------------------------------------------------
MaxFgEvents == 2
MaxFgTime == 1004

FgSettings == {BaseSettings, AppSettings}

\* one detent up on the vertical wheel, with each of marker and Ctrl
FgEvents ==
    {ev \in UserEvents : /\ ev.nCode = 0 /\ ev.wParam = WM_MOUSEWHEEL
                         /\ ev.mouseData = WHEEL_DELTA /\ ~ev.shift}

InitForeground ==
    /\ settings \in FgSettings
    /\ foreground \in Foregrounds
    /\ processes = ProcTable
    /\ InitEngine

NextForeground ==
    \/ start
    \/ \E ok \in BOOLEAN : HookInstall(ok)
    \/ HookLoop
    \/ (now < MaxFgTime /\ Quiet /\ Tick(FRAME_INTERVAL))
    \/ \E ev \in FgEvents : nevents < MaxFgEvents /\ HookEvent(ev)
    \/ \E f \in Foregrounds : Quiet /\ nevents > 0 /\ SwitchForeground(f)
    \/ \E a \in Axes : Worker(a)

SpecForeground == InitForeground /\ [][NextForeground]_vars

\* ------------------------------------------------------------------------
\* SpecLife: start() and stop() interleaved with the hook worker, wheel
\* events and the animators; SpecLifeFair and SpecAnimFair add the scheduling
\* of the hook worker and of the animator threads
\* ------------------------------------------------------------------------
MaxLifeEvents == 2
MaxLifeTime == 1004

\* one detent up or down on the vertical wheel
LifeEvents == {ev \in WheelEvents : ev.wParam = WM_MOUSEWHEEL}

\* the global parameters, or the application "ba" with animation_time = 0
InitLife ==
    /\ \/ settings = BaseSettings /\ foreground = [hwnd |-> 0, pid |-> 0]
       \/ settings = AppSettings /\ foreground = [hwnd |-> 1, pid |-> 2]
    /\ processes = ProcTable
    /\ InitEngine

\* a worker is in time.sleep()
Asleep == \E a \in Axes : worker[a].pc = "sleep" /\ now < worker[a].sleep_until

\* the clock: events stop coming after MaxLifeTime, time does not
LifeTick ==
    /\ Quiet
    /\ now < MaxLifeTime \/ Asleep
    /\ Tick(FRAME_INTERVAL)

NextLife ==
    \/ start
    \/ stop
    \/ \E ok \in BOOLEAN : HookInstall(ok)
    \/ HookLoop
    \/ HookQuit
    \/ HookCleanup
    \/ LifeTick
    \/ \E ev \in LifeEvents :
          nevents < MaxLifeEvents /\ now <= MaxLifeTime /\ HookEvent(ev)
    \/ \E a \in Axes : Worker(a)

SpecLife == InitLife /\ [][NextLife]_vars

\* the hook worker thread is scheduled whenever it can take a step, and
\* GetMessageW returns once a message is posted
SpecLifeFair ==
    /\ SpecLife
    /\ WF_vars(HookWorker)

\* an animator thread that can take a step is scheduled in the end, and
\* time.sleep() returns
SpecAnimFair ==
    /\ SpecLife
    /\ \A a \in Axes : WF_vars(Worker(a))
    /\ WF_vars(LifeTick)

\* ------------------------------------------------------------------------
\* Properties
\* ------------------------------------------------------------------------
\* An enqueue on axis a happens in this step.
EnqueueStep(a) ==
    /\ nevents' = nevents + 1
    /\ hook_result'.ret = "DROP"
    /\ hook_result'.route = a

\* C1: once an axis is idle again after accepted same-direction wheel events
\* (no reversal, engine not stopped), the deltas emitted on it sum to the
\* accelerated amounts enqueued, to within less than one pixel.
C1_EmittedSumsToEnqueued ==
    \A a \in Axes :
        (done[a].n > 0 /\ ~done[a].mixed /\ ~done[a].reversal /\ ~done[a].stopped)
            => Abs(done[a].emitted * Q - done[a].amount) < Q

\* C2: a run of a single enqueue of amount A that ends by itself has emitted
\* exactly round(A).
C2_SingleEnqueueEmitsRound ==
    \A a \in Axes :
        (done[a].n = 1 /\ ~done[a].stopped)
            => done[a].emitted = Round(done[a].amount)

\* C3: an enqueue of amount A on an axis whose target - current is non-zero
\* and opposite in sign to A leaves target = A, current = 0, velocity = 1.0
\* and the animation start at the time of the enqueue.
C3_ReversalPurity ==
    [][\A a \in Axes :
          LET remaining == target_scroll[a] - current_scroll[a]
              A == hook_result'.amount
          IN  (EnqueueStep(a) /\ ((remaining > 0 /\ A < 0) \/ (remaining < 0 /\ A > 0)))
                  => /\ target_scroll'[a] = A
                     /\ current_scroll'[a] = 0
                     /\ scroll_velocity' = Q
                     /\ animation_start'[a] = now']_vars

\* a reversal enqueue has just been performed on a running animation
C3_Witness ==
    \E a \in Axes :
        /\ run[a].reversal /\ run[a].n >= 2
        /\ hook_result.route = a
        /\ target_scroll[a] = hook_result.amount
        /\ current_scroll[a] = 0
        /\ worker[a].pc = "update"

\* A hook callback runs in this step.
HookStep == nevents' # nevents \/ hook_result' # hook_result

IsWheel(ev) == ev.wParam \in {WM_MOUSEWHEEL, WM_MOUSEHWHEEL}

\* Neither the accelerator nor an axis changes in this step, and nothing is
\* handed to SendInput.
EngineUntouched ==
    /\ UNCHANGED <<last_scroll_time, scroll_velocity>>
    /\ UNCHANGED <<target_scroll, current_scroll, animating, animation_start>>
    /\ nsent' = nsent

\* C4: every synthetic event handed to SendInput carries the injection
\* marker, and a callback for a wheel event that carries the marker returns
\* PASS and leaves the accelerator and both axes unchanged and emits nothing.
C4_NoSelfRecursion ==
    [][/\ (nsent' # nsent => last_input'.dwExtraInfo = INJECTED_FLAG)
       /\ (HookStep /\ IsWheel(hook_result'.ev)
                    /\ hook_result'.ev.dwExtraInfo = INJECTED_FLAG)
             => (hook_result'.ret = "PASS" /\ EngineUntouched)]_vars

\* the callback has passed the very event an animator or the direct emit
\* has injected, on the marker
C4_Witness ==
    /\ nsent > 0
    /\ last_input.dwExtraInfo = INJECTED_FLAG
    /\ hook_result.reason = "injected"
    /\ hook_result.ev.mouseData = last_input.mouseData % 65536
    /\ hook_result.ev.mouseData # WHEEL_DELTA
    /\ hook_result.ev.wParam =
         (IF last_input.horizontal THEN WM_MOUSEHWHEEL ELSE WM_MOUSEWHEEL)

\* the foreground executable is resolved and on the exclusion list
ForegroundExcluded ==
    /\ foreground.hwnd # 0 /\ foreground.pid # 0
    /\ processes[foreground.pid].open /\ processes[foreground.pid].query
    /\ \E i \in 1..Len(settings.blacklist) :
         Lower(settings.blacklist[i]) = Lower(BaseName(processes[foreground.pid].path))

\* the five conditions under which the callback is said to return DROP
ShouldDrop(ev) ==
    /\ settings.enabled
    /\ IsWheel(ev)
    /\ ev.dwExtraInfo # INJECTED_FLAG
    /\ ~(settings.blacklist # <<>> /\ ForegroundExcluded)
    /\ ~ev.ctrl

\* what a DROP has done in this step: the enqueues and the direct emit
DropEffects ==
    {a \in Axes : run'[a].n = run[a].n + 1}
        \cup (IF nsent' = nsent + 1 THEN {"direct"} ELSE {})

\* C7 as stated: the callback returns DROP exactly when the engine is
\* enabled, the message is a wheel message, the marker is absent, the
\* foreground is not excluded and Ctrl is up; otherwise it returns PASS.
C7_DropIffFiveConditions ==
    hook_result.ret # "none"
        => /\ hook_result.ret \in {"DROP", "PASS"}
           /\ hook_result.ret = "DROP" <=> ShouldDrop(hook_result.ev)

\* C7, amended: the callback returns DROP exactly when nCode >= 0 and the
\* five conditions hold, and PASS otherwise; the checks before the exclusion
\* list decide without looking the foreground process up; every DROP does
\* exactly one of: vertical enqueue, horizontal enqueue, direct emit.
C7_DropIffAccepted ==
    [][HookStep =>
         LET ev == hook_result'.ev
         IN  /\ hook_result'.ret \in {"DROP", "PASS"}
             /\ hook_result'.ret = "DROP" <=> (ev.nCode >= 0 /\ ShouldDrop(ev))
             /\ (ev.nCode < 0 \/ ~settings.enabled \/ ~IsWheel(ev)
                     \/ ev.dwExtraInfo = INJECTED_FLAG)
                   => process_name_cache' = process_name_cache
             /\ hook_result'.ret = "DROP" => Cardinality(DropEffects) = 1
             /\ hook_result'.ret = "PASS" => DropEffects = {}]_vars

\* the second event, Shift+wheel, has been dropped and enqueued on the
\* horizontal axis
C7_Witness ==
    /\ nevents = 2
    /\ hook_result.ret = "DROP"
    /\ hook_result.ev.shift
    /\ hook_result.route = "h"
    /\ run["h"].n = 1
    /\ run["v"].n = 0

\* C8: a callback that returns PASS leaves velocity, last event time and both
\* axes' target, current, animating flag and start time unchanged, and emits
\* nothing.
C8_PassLeavesEngineUntouched ==
    [][(HookStep /\ hook_result'.ret = "PASS") => EngineUntouched]_vars

\* Ctrl+wheel has been passed while an animation is in flight
C8_Witness ==
    /\ hook_result.ret = "PASS"
    /\ hook_result.reason = "ctrl"
    /\ \E a \in Axes : animating[a] /\ target_scroll[a] # 0 /\ worker[a].pc = "sleep"

\* C5: after an accepted event that is enqueued, the shared velocity lies
\* between 1.0 and the acceleration_max resolved for that event.
C5_VelocityWithinBounds ==
    (hook_result.ret = "DROP" /\ hook_result.route \in Axes)
        => /\ scroll_velocity >= Q
           /\ scroll_velocity <= current_app_params[hook_result.route].acceleration_max

\* the amount of the last accepted event is step_size times velocity 1.0
AmountAtUnitVelocity ==
    Abs(hook_result.amount) = current_app_params[hook_result.route].step_size * Q

\* C6 as stated: an accepted event 300 ms or more after the previous one is
\* computed with velocity exactly 1.0.
C6_UnitVelocityAfter300 ==
    (hook_result.ret = "DROP" /\ hook_result.route \in Axes /\ hook_result.gap >= DECAY_WINDOW)
        => AmountAtUnitVelocity

\* C6, amended: an accepted event that comes 300 ms or more, and no less
\* than the resolved acceleration_delta, after the previous one is computed
\* with velocity exactly 1.0.
C6_UnitVelocityAfterDecay ==
    (/\ hook_result.ret = "DROP" /\ hook_result.route \in Axes
     /\ hook_result.gap >= DECAY_WINDOW
     /\ hook_result.gap >= current_app_params[hook_result.route].acceleration_delta)
        => /\ AmountAtUnitVelocity
           /\ scroll_velocity = Q

\* an event 300 ms after one that had raised the velocity above 1.0
C6_Witness ==
    /\ hook_result.ret = "DROP" /\ hook_result.route = "v"
    /\ hook_result.gap >= DECAY_WINDOW
    /\ hook_result.gap >= current_app_params["v"].acceleration_delta
    /\ hook_result.v0 > Q
    /\ AmountAtUnitVelocity

\* the base name of the foreground executable, as the system reports it
ForegroundExe == BaseName(processes[foreground.pid].path)

\* C9: a wheel event that reaches the exclusion-list check is passed as
\* excluded exactly when the lower-cased foreground executable name equals
\* the lower-cased form of some entry of the list.
C9_BlacklistIgnoresCase ==
    hook_result.ret # "none"
        => (hook_result.reason = "blacklisted"
              <=> \E i \in 1..Len(settings.blacklist) :
                     Lower(ForegroundExe) = Lower(settings.blacklist[i]))

\* an event has been passed because the second entry of the list, stored
\* with a capital, matches an executable whose name is spelt differently
C9_Witness ==
    /\ hook_result.reason = "blacklisted"
    /\ Len(settings.blacklist) = 2
    /\ Lower(settings.blacklist[1]) # Lower(ForegroundExe)
    /\ settings.blacklist[2] # Lower(settings.blacklist[2])
    /\ settings.blacklist[2] # ForegroundExe
    /\ ForegroundExe # Lower(ForegroundExe)

\* C10: get_app_settings(E) gives, for each of the five parameters, the
\* value of per_app_settings[lower(E)] where that override has it and the
\* global value otherwise; the global values alone for an unknown or empty
\* E; and it changes neither the settings nor the override table.
C10_Resolution ==
    [][probe' # probe =>
         LET E == probe'.arg
             table == settings.per_app_settings
             known == E # <<>> /\ Lower(E) \in DOMAIN table
         IN  /\ DOMAIN probe'.out = ParamKeys
             /\ \A k \in ParamKeys :
                  probe'.out[k] = IF known /\ k \in DOMAIN table[Lower(E)]
                                  THEN table[Lower(E)][k]
                                  ELSE settings[k]
             /\ settings' = settings]_vars

\* a name given with a capital has been resolved through a sparse override:
\* one parameter from the override, another from the global settings
C10_Witness ==
    /\ probe.op = "get_app_settings"
    /\ probe.arg = <<"A", "b">>
    /\ <<"a", "b">> \in DOMAIN settings.per_app_settings
    /\ DOMAIN settings.per_app_settings[<<"a", "b">>] = {"step_size"}
    /\ probe.out.step_size = 7
    /\ probe.out.animation_time = settings.animation_time

\* the fields of axis a that an enqueue writes, and its worker
AxisState(a) ==
    <<target_scroll[a], current_scroll[a], animating[a], animation_start[a],
      current_app_params[a], worker[a], run[a]>>

\* axis a has received the enqueue of this step's callback
Enqueued(a) ==
    /\ run'[a].n = IF animating[a] THEN run[a].n + 1 ELSE 1
    /\ animating'[a]
    /\ current_scroll'[a] = 0
    /\ animation_start'[a] = now
    /\ worker'[a].pc # "none"

\* C11: an accepted vertical-wheel message with shift_horizontal set and
\* Shift held is handled as horizontal: with horizontal_smoothness the
\* horizontal animator receives the enqueue and the vertical axis is left as
\* it was; without Shift, or with shift_horizontal clear, a vertical-wheel
\* message drives the vertical animator and leaves the horizontal axis alone.
C11_ShiftSwap ==
    [][(HookStep /\ hook_result'.ret = "DROP"
                 /\ hook_result'.ev.wParam = WM_MOUSEWHEEL)
          => IF settings.shift_horizontal /\ hook_result'.ev.shift
             THEN /\ AxisState("v")' = AxisState("v")
                  /\ settings.horizontal_smoothness => Enqueued("h")
             ELSE /\ Enqueued("v")
                  /\ AxisState("h")' = AxisState("h")
                  /\ nsent' = nsent]_vars

\* Shift+wheel has been enqueued on the horizontal axis while the vertical
\* animation of an earlier plain wheel event is in flight
C11_Witness ==
    /\ nevents = 2
    /\ hook_result.ret = "DROP"
    /\ hook_result.ev.wParam = WM_MOUSEWHEEL /\ hook_result.ev.shift
    /\ settings.shift_horizontal /\ settings.horizontal_smoothness
    /\ run["h"].n = 1 /\ worker["h"].pc = "begin"
    /\ run["v"].n = 1 /\ worker["v"].pc = "sleep"

\* the event is a horizontal one for the callback: the horizontal wheel, or
\* the vertical wheel swapped by Shift
HandledAsHorizontal(ev) ==
    \/ ev.wParam = WM_MOUSEHWHEEL
    \/ (ev.wParam = WM_MOUSEWHEEL /\ settings.shift_horizontal /\ ev.shift)

\* C12: an accepted horizontal event with horizontal_smoothness clear emits
\* exactly one synthetic horizontal event whose delta is the accelerated
\* amount truncated toward zero, updates the accelerator, changes neither
\* axis, spawns no worker, and the original is DROPped.
C12_DirectEmit ==
    [][(HookStep /\ hook_result'.reason = "accept"
                 /\ HandledAsHorizontal(hook_result'.ev)
                 /\ ~settings.horizontal_smoothness)
          => /\ hook_result'.ret = "DROP"
             /\ nsent' = nsent + 1
             /\ scroll_velocity' =
                    next_velocity(scroll_velocity, now - last_scroll_time,
                                  settings.acceleration_delta,
                                  settings.acceleration_max)
             /\ last_scroll_time' = now
             /\ hook_result'.amount = settings.step_size * scroll_velocity'
             /\ last_input' = [mouseData |-> Trunc(hook_result'.amount, Q),
                               horizontal |-> TRUE,
                               dwExtraInfo |-> INJECTED_FLAG]
             /\ \A a \in Axes : AxisState(a)' = AxisState(a)]_vars

\* the second of two quick horizontal events has been emitted directly: the
\* amount 5.4 went out as a delta of 5
C12_Witness ==
    /\ hook_result.ret = "DROP" /\ hook_result.route = "direct"
    /\ ~settings.horizontal_smoothness
    /\ hook_result.amount = 5400
    /\ nsent = 2
    /\ last_input = [mouseData |-> 5, horizontal |-> TRUE,
                     dwExtraInfo |-> INJECTED_FLAG]
    /\ \A a \in Axes : ~animating[a] /\ worker[a].pc = "none"

\* C13: whatever happens while an event is processed, the callback ends by
\* returning: PASS when an exception was raised, and no exception leaves it.
C13_ExceptionsBecomePass ==
    [][HookStep => hook_result'.ret \in {"PASS", "DROP"}]_vars

\* a system call of the foreground lookup fails: no foreground window, PID 0,
\* the process cannot be opened, or its image name cannot be read
ForegroundUnknown ==
    \/ foreground.hwnd = 0
    \/ foreground.pid = 0
    \/ ~processes[foreground.pid].open
    \/ ~processes[foreground.pid].query

\* the callback of this step has looked the foreground application up
LooksForegroundUp ==
    /\ HookStep
    /\ \/ ReachesBlacklistCheck(hook_result'.ev, settings)
       \/ hook_result'.reason = "accept"

\* C14 as stated: when a system call of the foreground lookup fails, the
\* callback returns PASS, nothing is enqueued or emitted and the accelerator
\* is left as it was.
C14_OsFailurePasses ==
    [][(LooksForegroundUp /\ ForegroundUnknown)
          => (hook_result'.ret = "PASS" /\ EngineUntouched)]_vars

\* C14, amended: when a system call of the foreground lookup fails, the
\* application counts as unknown: it is never excluded, a failed open or
\* name read is cached as the empty name, and the event is decided by the
\* remaining checks; an accepted one is DROPped and scrolled with the global
\* parameters.
C14_OsFailureMeansUnknownApp ==
    [][(LooksForegroundUp /\ ForegroundUnknown)
          => LET ev == hook_result'.ev
                 pid == foreground.pid
             IN  /\ hook_result'.reason = Decision(ev, settings, FALSE)
                 /\ hook_result'.ret = (IF ev.ctrl THEN "PASS" ELSE "DROP")
                 /\ (foreground.hwnd # 0 /\ pid # 0)
                       => /\ CacheHas(process_name_cache', pid)
                          /\ CacheGet(process_name_cache', pid) = <<>>
                 /\ ~ev.ctrl
                       => /\ hook_result'.amount =
                               settings.step_size *
                                 next_velocity(scroll_velocity, now - last_scroll_time,
                                               settings.acceleration_delta,
                                               settings.acceleration_max)
                          /\ current_app_params'["v"] = get_app_settings(settings, <<>>)
                          /\ Enqueued("v")]_vars

\* with an exclusion list set, a wheel event was accepted and enqueued while
\* the image name of the foreground process could not be read
C14_Witness ==
    /\ settings.blacklist # <<>>
    /\ foreground = [hwnd |-> 1, pid |-> 4]
    /\ hook_result.ret = "DROP" /\ hook_result.route = "v"
    /\ process_name_cache = << [pid |-> 4, name |-> <<>>] >>
    /\ run["v"].n = 1 /\ worker["v"].pc = "begin"
    /\ target_scroll["v"] = settings.step_size * Q

\* C15: every change of the running state is reported through the status
\* callback with the new value: the value last reported is the running state,
\* also after a failed hook installation.
C15_StatusFollowsRunning == status_reported = running

\* the dispatcher is Uninstalled: no hook worker, no hook handle
Uninstalled == hook_thread = "none" /\ ~hook_handle /\ ~running

\* C16: a failed hook installation leaves the dispatcher Uninstalled (running
\* flag cleared, no handle kept, hook worker gone) with no quit message
\* pending, and every start() from there begins a fresh installation.
C16_InstallFailureUninstalls ==
    [][/\ (hook_thread = "install" /\ hook_thread' \notin {"install", "loop"})
           => (Uninstalled' /\ ~quit_posted')
       /\ (Uninstalled /\ nstarts' # nstarts)
           => (running' /\ hook_thread' = "install" /\ ~hook_handle')]_vars

\* after a failed installation (stop() is never called here) a second
\* start() has installed the hook and the dispatcher handles events
C16_Witness ==
    /\ nstarts = 2
    /\ running /\ hook_handle /\ hook_thread = "wait"
    /\ nevents = 1 /\ hook_result.ret = "DROP"

\* C17: whenever the running flag is clear, and so after stop() at any point
\* of the hook worker's start-up, the dispatcher ends up Uninstalled: the
\* hook worker has left its loop, unhooked, cleared the handle and exited.
C17_StopUninstalls == (~running) ~> Uninstalled

\* stop() ran before the hook worker installed the hook: the hook is now
\* installed with the running flag clear and no quit message posted
C17_Witness ==
    /\ ~running /\ ~status_reported
    /\ hook_thread = "loop" /\ hook_handle
    /\ ~quit_posted

\* C18: an axis never has two animator workers in the frame loop: a worker
\* thread is started only by an enqueue that finds animating false and no
\* worker of the axis alive, an enqueue that finds animating true leaves the
\* axis's worker as it is, and a worker in its loop has animating true.
C18_OneWorkerPerAxis ==
    [][\A a \in Axes :
          /\ worker[a].pc # "none" => animating[a]
          /\ (worker'[a].pc = "begin" /\ worker'[a] # worker[a])
                => (EnqueueStep(a) /\ worker[a].pc = "none"
                                   /\ ~animating[a] /\ animating'[a])
          /\ (EnqueueStep(a) /\ animating[a]) => worker'[a] = worker[a]]_vars

\* a second enqueue has found the axis animating, its worker asleep between
\* two frames, and has started no thread
C18_Witness ==
    \E a \in Axes :
        /\ hook_result.ret = "DROP" /\ hook_result.route = a
        /\ run[a].n = 2
        /\ animating[a] /\ animation_start[a] = now /\ current_scroll[a] = 0
        /\ worker[a].pc = "sleep" /\ worker[a].sleep_until = now

\* axis a is idle and has no worker
AxisIdle(a) ==
    /\ target_scroll[a] = 0 /\ current_scroll[a] = 0 /\ ~animating[a]
    /\ worker[a].pc = "none"

\* C19: once the enqueues have ceased, a worker in its frame loop ends and
\* leaves its axis idle (target = 0, current = 0, animating = false), whatever
\* the animation time (0 included) and the target, unless the engine is
\* stopped first.
C19_AnimatorTerminates ==
    \A a \in Axes : (worker[a].pc # "none") ~> (~running \/ AxisIdle(a))

\* an animation with animation_time = 0 has ended by itself, after emitting
\* its target, and the axis is idle
C19_Witness ==
    /\ WorkerParams(get_app_settings(settings, <<"b", "a">>), settings).anim_time = 0
    /\ foreground = [hwnd |-> 1, pid |-> 2]
    /\ done["v"].n = 1 /\ ~done["v"].stopped
    /\ done["v"].emitted * Q = done["v"].amount
    /\ done["v"].emitted # 0
    /\ AxisIdle("v")
    /\ running

\* C20: with the running flag cleared by stop(), a worker that reaches the
\* top of a frame exits there, so a worker computes at most one frame, the
\* one it was in, after the flag was cleared; only that frame emits.
C20_Cancellation ==
    [][\A a \in Axes :
          /\ (~running /\ worker[a].pc = "top" /\ worker'[a] # worker[a])
                => worker'[a].pc = "none"
          /\ run'[a].late <= 1
          /\ (~running /\ run'[a].emitted # run[a].emitted /\ run'[a].n = run[a].n)
                => (worker[a].pc = "frame" /\ run[a].late = 0)]_vars

\* stop() came while a worker was inside a frame: the worker emitted that
\* frame, found the flag clear at the top of the next one and exited
C20_Witness ==
    /\ ~running
    /\ run["v"].stopped /\ run["v"].late = 1
    /\ run["v"].emitted # 0
    /\ worker["v"].pc = "none"
    /\ animating["v"]

\* C21: the animation time and the tail ratio a frame uses are the ones the
\* most recent enqueue on the axis stored: a swap of the settings alone
\* leaves them alone, and an enqueue with other parameters changes them for
\* the frames that begin after it.
C21_ParameterSnapshot ==
    [][\A a \in Axes :
          (worker[a].pc = "top" /\ worker'[a].pc = "frame")
             => /\ worker[a].anim_time = current_app_params[a].animation_time
                /\ worker[a].tail_ratio = current_app_params[a].tail_head_ratio]_vars

\* ------------------------------------------------------------------------
\* SpecCache: _get_process_name_by_pid() called directly, for process ids
\* not seen before, for ids in the cache and for ids the cache has dropped,
\* while processes end and their ids are taken by other processes
\* ------------------------------------------------------------------------
MaxCachePid == 130

\* a process table over many ids: named images, a process that cannot be
\* opened, and one whose image name cannot be read
CacheProcs ==
    [pid \in 1..MaxCachePid |->
        CASE pid % 4 = 1 -> [open |-> TRUE, query |-> TRUE, raises |-> FALSE, path |-> <<"d", "\\", "a", "B">>]
          [] pid % 4 = 2 -> [open |-> TRUE, query |-> TRUE, raises |-> FALSE, path |-> <<"B", "a">>]
          [] pid % 4 = 3 -> [open |-> FALSE, query |-> FALSE, raises |-> FALSE, path |-> <<>>]
          [] OTHER       -> [open |-> TRUE, query |-> FALSE, raises |-> FALSE, path |-> <<>>]]

\* ids whose process is replaced while the engine runs
ReusedPids == {1, 3}

InitCache ==
    /\ settings = BaseSettings
    /\ foreground = [hwnd |-> 0, pid |-> 0]
    /\ processes = CacheProcs
    /\ InitEngine

\* the least id not looked up so far: ids are first looked up in their order
FreshPid ==
    IF process_name_cache = <<>> THEN 1
    ELSE 1 + (CHOOSE m \in {process_name_cache[i].pid : i \in 1..Len(process_name_cache)} :
                 \A i \in 1..Len(process_name_cache) : process_name_cache[i].pid <= m)

\* self._get_process_name_by_pid(pid)
Lookup(pid) ==
    /\ LET lk == get_process_name_by_pid(processes, process_name_cache, pid)
       IN  /\ process_name_cache' = lk.cache
           /\ probe' = [op |-> "get_process_name_by_pid", arg |-> <<pid>>,
                        out |-> <<lk.name, lk.opened>>,
                        held |-> probe.held + lk.held]
    /\ UNCHANGED <<animation_lock, settings, env_vars, engine_vars, now, accel_vars,
                   axis_vars, worker, hist_vars>>

\* the process with this id ends and the id goes to a process of the other
\* kind: an unreadable one for a named one and the reverse
ReusePid(pid) ==
    /\ processes' = [processes EXCEPT
                        ![pid] = IF @.open THEN CacheProcs[3] ELSE CacheProcs[1]]
    /\ UNCHANGED <<probe, animation_lock, settings, foreground, process_name_cache,
                   engine_vars, now, accel_vars, axis_vars, worker, hist_vars>>

NextCache ==
    \/ \E pid \in {FreshPid} \cap (1..MaxCachePid) : Lookup(pid)
    \/ \E pid \in ReusedPids : FreshPid > pid /\ Lookup(pid)
    \/ \E pid \in ReusedPids : ReusePid(pid)

SpecCache == InitCache /\ [][NextCache]_vars

\* a direct call of the resolver has just returned
Looked == probe.op = "get_process_name_by_pid"

\* C22: the cache never holds more than 128 entries, and a write into a
\* cache of 128 entries first removes the 64 entries written earliest and
\* keeps the 64 written last, in their order, before it adds the new one.
C22_CacheBound ==
    [][/\ Len(process_name_cache') <= 128
       /\ (Len(process_name_cache) = 128 /\ process_name_cache' # process_name_cache)
             => /\ Len(process_name_cache') = 65
                /\ SubSeq(process_name_cache', 1, 64) = SubSeq(process_name_cache, 65, 128)
                /\ process_name_cache'[65] =
                      [pid |-> probe'.arg[1], name |-> probe'.out[1]]]_vars

\* the cache was full and a lookup of a new id has dropped its older half
C22_Witness ==
    /\ Looked
    /\ Len(process_name_cache) = 65
    /\ process_name_cache[1].pid = 65
    /\ process_name_cache[65].pid = 129
    /\ probe.arg = <<129>>

\* C23: a lookup whose OpenProcess or QueryFullProcessImageNameW fails
\* returns the empty string and leaves the empty string in the cache for
\* that id; a lookup of an id the cache holds, the empty string included,
\* returns the cached name without calling OpenProcess and leaves the cache
\* as it was, whatever the process table says by then.
C23_LookupNeverFails ==
    [][(Looked' /\ UNCHANGED processes)
          => LET pid == probe'.arg[1]
                 p   == processes[pid]
             IN  /\ CacheHas(process_name_cache, pid)
                       => /\ probe'.out = <<CacheGet(process_name_cache, pid), FALSE>>
                          /\ process_name_cache' = process_name_cache
                 /\ (~CacheHas(process_name_cache, pid) /\ ~(p.open /\ p.query))
                       => /\ probe'.out = << <<>>, TRUE >>
                          /\ CacheHas(process_name_cache', pid)
                          /\ CacheGet(process_name_cache', pid) = <<>>]_vars

\* the empty string cached for an id is returned, unopened, after the id has
\* gone to a process that could be opened and named
C23_Witness ==
    /\ Looked
    /\ probe.arg = <<3>>
    /\ probe.out = << <<>>, FALSE >>
    /\ processes[3].open /\ processes[3].query
    /\ CacheHas(process_name_cache, 3)

\* ------------------------------------------------------------------------
\* SpecDelta: accepted vertical wheel events whose mouseData carries deltas
\* of several magnitudes and signs, zero included, at several intervals
\* ------------------------------------------------------------------------
MaxDeltaEvents == 2

\* high words of mouseData: no movement, a fraction of a detent, one and two
\* detents up, one and two detents down
DeltaWords == {0, 30, WHEEL_DELTA, 2 * WHEEL_DELTA,
               65536 - WHEEL_DELTA, 65536 - 2 * WHEEL_DELTA}

DeltaEvents ==
    [nCode : {0}, wParam : {WM_MOUSEWHEEL}, mouseData : DeltaWords,
     dwExtraInfo : {0}, ctrl : {FALSE}, shift : {FALSE}]

InitDelta ==
    /\ settings = BaseSettings
    /\ foreground = [hwnd |-> 0, pid |-> 0]
    /\ processes = ProcTable
    /\ InitEngine

NextDelta ==
    \/ start
    \/ HookInstall(TRUE)
    \/ HookLoop
    \/ \E d \in Gaps : AtEvent /\ Quiet /\ Tick(d)
    \/ \E ev \in DeltaEvents :
          nevents < MaxDeltaEvents /\ ~AtEvent /\ Quiet /\ HookEvent(ev)
    \/ \E a \in Axes : Worker(a)

SpecDelta == InitDelta /\ [][NextDelta]_vars

\* C24: the amount of an accepted event is step_size * sign(raw_delta) *
\* velocity, where raw_delta is the signed 16-bit high word of mouseData,
\* sign(0) = 0, and the velocity is the previous one raised by
\* 0.8 * (1 - gap / acceleration_delta) up to acceleration_max when the gap
\* is below acceleration_delta, and decayed by min(gap / 300, 1) down to 1.0
\* otherwise; the magnitude of raw_delta plays no part.
C24_AcceleratorResult ==
    (hook_result.ret = "DROP" /\ hook_result.route \in Axes)
        => LET p == current_app_params[hook_result.route]
               raw_delta == c_short(hook_result.ev.mouseData)
               sign == IF raw_delta > 0 THEN 1 ELSE IF raw_delta < 0 THEN -1 ELSE 0
               gap == hook_result.gap
               velocity ==
                   IF gap < p.acceleration_delta
                   THEN Min(hook_result.v0
                              + (((Q - ((gap * Q) \div p.acceleration_delta)) * 8 * Q)
                                    \div (10 * Q)),
                            p.acceleration_max)
                   ELSE Max(Q, (hook_result.v0 * (Q - Min((gap * Q) \div 300, Q))) \div Q)
           IN  hook_result.amount = p.step_size * sign * velocity

\* C25: when an accepted event is enqueued on an axis whose animation is in
\* flight, less than acceleration_delta after the previous event and in the
\* direction of every enqueue of the run, the velocity after it is strictly
\* above 1.0 and at most acceleration_max, and the magnitude of the target
\* is strictly above the number of enqueues of the run times step_size.
C25_RapidBurst ==
    [][\A a \in Axes :
          LET p == current_app_params'[a]
          IN  (/\ EnqueueStep(a) /\ animating[a]
               /\ ~run'[a].mixed
               /\ hook_result'.gap < p.acceleration_delta)
                 => /\ scroll_velocity' > Q
                    /\ scroll_velocity' <= p.acceleration_max
                    /\ Abs(target_scroll'[a]) > run'[a].n * p.step_size * Q]_vars

\* ------------------------------------------------------------------------
\* SpecEase: custom_ease() called directly at two times of one animation,
\* for tail ratios over the range the settings window offers. Times and
\* values are in Q-ths: the times compared lie a grid step apart, and for
\* a ratio below the default, where the curve is within 1/Q of 1 over the
\* last part of the time, they are 0, 1/2 and 1.
\* ------------------------------------------------------------------------
MaxEaseSteps == 8

\* tail_head_ratio from 1.0 to 10.0
TailRatios == {Q, 4 * Q, (11 * Q) \div 2, 7 * Q, 10 * Q}

\* the number of grid steps for a tail ratio
EaseSteps(r) == IF r < 4 * Q THEN 2 ELSE MaxEaseSteps

\* the times i / n of the progress, 0 and 1 included
EaseGrid(n) == {(i * Q) \div n : i \in 0..n}

\* an earlier and a later time, and a tail ratio
EaseArgs ==
    UNION {{<<t1, t2, r>> : t1 \in EaseGrid(EaseSteps(r)),
                            t2 \in EaseGrid(EaseSteps(r))} : r \in TailRatios}

InitEase ==
    /\ settings = BaseSettings
    /\ foreground = [hwnd |-> 0, pid |-> 0]
    /\ processes = ProcTable
    /\ InitEngine

\* custom_ease(t1, r) and custom_ease(t2, r)
Ease(t1, t2, r) ==
    /\ probe' = [op |-> "custom_ease", arg |-> <<t1, t2, r>>,
                 out |-> <<custom_ease(t1, r), custom_ease(t2, r)>>, held |-> 0]
    /\ UNCHANGED <<animation_lock, settings, env_vars, process_name_cache, engine_vars,
                   now, accel_vars, axis_vars, worker, hist_vars>>

NextEase == \E x \in EaseArgs : x[1] < x[2] /\ Ease(x[1], x[2], x[3])

SpecEase == InitEase /\ [][NextEase]_vars

\* C26: for a tail ratio r > 0 the eased progress is 0 at time 0, 1 at
\* time 1, and strictly greater at the later of two times of [0, 1].
C26_EasingKernel ==
    probe.op = "custom_ease"
        => /\ (probe.arg[1] = 0 => probe.out[1] = 0)
           /\ (probe.arg[2] = Q => probe.out[2] = Q)
           /\ probe.out[1] < probe.out[2]

\* the curve at the default tail ratio, at half time and at the end: most
\* of the way is behind at half time
C26_Witness ==
    /\ probe.op = "custom_ease"
    /\ probe.arg = <<Q \div 2, Q, 4 * Q>>
    /\ probe.out[1] > Q \div 2 /\ probe.out[1] < Q
    /\ probe.out[2] = Q

\* C27: a frame computed while animation_easing is false takes the raw
\* progress min(elapsed / animation_time, 1) as the eased progress: the
\* position it aims at is target * progress, so what it emits and what it
\* carries add up to that position less current, plus the carry it had.
C27_LinearFallback ==
    [][\A a \in Axes :
          LET w == worker[a]
              elapsed == now - w.start_time
              progress == IF elapsed >= w.anim_time THEN Q
                          ELSE (elapsed * Q) \div w.anim_time
              desired == Trunc(w.total_target * progress, Q)
          IN  (/\ w.pc = "frame" /\ worker'[a].pc \in {"update", "final"}
               /\ ~settings.animation_easing
               /\ w.anim_time > 0)
                 => /\ worker'[a].progress = progress
                    /\ worker'[a].int_delta * Q + worker'[a].accumulated_remainder
                          = (desired - w.current) + w.accumulated_remainder]_vars

\* half way through a linear animation of 3 pixels: one pixel is emitted and
\* half a pixel carried
C27_Witness ==
    /\ ~settings.animation_easing
    /\ worker["v"].pc = "update"
    /\ worker["v"].total_target = 3 * Q
    /\ worker["v"].progress = Q \div 2
    /\ worker["v"].int_delta = 1
    /\ worker["v"].accumulated_remainder = Q \div 2

\* ------------------------------------------------------------------------
\* SpecImport: config.import_config_ini() called directly on INI documents
\* with a [Global] section and at most one [PerApp:...] section, whose keys
\* are known or unknown and whose values are of every kind
\* ------------------------------------------------------------------------
MaxIniKeys == 2

\* values as written in the file: "7", "2.5", "False" and "fast"
IniValues == {[kind |-> "int", val |-> 7], [kind |-> "float", val |-> (5 * Q) \div 2],
              [kind |-> "bool", val |-> 0], [kind |-> "text", val |-> 0]}

\* keys of a section: an integer, a float and a boolean field of the
\* settings, and a key the settings do not have
IniKeys == {"step_size", "acceleration_max", "animation_easing", "colour"}

\* the sections of at most n keys
IniTables(n) ==
    UNION {[K -> IniValues] : K \in {S \in SUBSET IniKeys : Cardinality(S) <= n}}

IniDocs ==
    [global  : IniTables(MaxIniKeys),
     per_app : {NoOverrides} \cup {[name \in {<<"B", "a">>} |-> t] : t \in IniTables(1)}]

IntFields == {"step_size", "animation_time", "acceleration_delta"}
FloatFields == {"acceleration_max", "tail_head_ratio"}
BoolFields == {"animation_easing", "shift_horizontal", "horizontal_smoothness",
               "enabled"}

\* whether int(), float() or RawConfigParser._convert_to_boolean() accepts
\* the value written for a field of this type
Converts(k, v) ==
    CASE k \in IntFields   -> v.kind = "int"
      [] k \in FloatFields -> v.kind \in {"int", "float"}
      [] k \in BoolFields  -> v.kind = "bool" \/ (v.kind = "int" /\ v.val \in {0, 1})
      [] OTHER             -> FALSE

\* the value the conversion returns
Converted(k, v) ==
    CASE k \in IntFields   -> v.val
      [] k \in FloatFields -> IF v.kind = "int" THEN v.val * Q ELSE v.val
      [] OTHER             -> v.val = 1

\* the override table built from the [PerApp:...] sections: the parameters
\* that convert, under the lower-cased name, for sections that have any
ImportPerApp(sections) ==
    LET params(n) == [k \in {k \in DOMAIN sections[n] \cap ParamKeys :
                               Converts(k, sections[n][k])}
                        |-> Converted(k, sections[n][k])]
        kept == {n \in DOMAIN sections : DOMAIN params(n) # {}}
    IN  [e \in {Lower(n) : n \in kept} |->
            params(CHOOSE n \in kept : Lower(n) = e)]

\* import_config_ini: whether it raises, and the settings it returns.
\* SectionProxy.getint/getfloat/getboolean fall back on the default for a
\* key that is missing; a value that does not convert raises ValueError.
import_config_ini(doc) ==
    LET g == doc.global
        typed == IntFields \cup FloatFields \cup BoolFields
    IN  IF \E k \in DOMAIN g \cap typed : ~Converts(k, g[k])
        THEN [raised |-> TRUE, settings |-> BaseSettings]
        ELSE [raised |-> FALSE,
              settings |->
                 [k \in DOMAIN BaseSettings |->
                     IF k \in DOMAIN g \cap typed THEN Converted(k, g[k])
                     ELSE IF k = "per_app_settings" THEN ImportPerApp(doc.per_app)
                     ELSE BaseSettings[k]]]

InitImport ==
    /\ settings = BaseSettings
    /\ foreground = [hwnd |-> 0, pid |-> 0]
    /\ processes = ProcTable
    /\ InitEngine

\* import_config_ini(filepath) on a file that holds doc
Import(doc) ==
    /\ probe' = [op |-> "import_config_ini", arg |-> doc,
                 out |-> import_config_ini(doc), held |-> 0]
    /\ UNCHANGED <<animation_lock, settings, env_vars, process_name_cache, engine_vars,
                   now, accel_vars, axis_vars, worker, hist_vars>>

\* one file is imported in a behaviour
NextImport == \E doc \in IniDocs : probe = NoProbe /\ Import(doc)

SpecImport == InitImport /\ [][NextImport]_vars

\* C28: the import returns a settings object whatever the file holds; a
\* key it does not know, in [Global] or in a [PerApp:...] section, changes
\* nothing; a known key whose value does not convert leaves the field at
\* its default, or out of the override, and a value that converts is taken.
C28_ImportTolerant ==
    probe.op = "import_config_ini"
        => LET g == probe.arg.global
               out == probe.out
           IN  /\ ~out.raised
               /\ \A k \in IntFields \cup FloatFields \cup BoolFields :
                     out.settings[k] =
                        IF k \in DOMAIN g /\ Converts(k, g[k])
                        THEN Converted(k, g[k]) ELSE BaseSettings[k]
               /\ out.settings.blacklist = BaseSettings.blacklist
               /\ out.settings.per_app_settings = ImportPerApp(probe.arg.per_app)

\* ------------------------------------------------------------------------
\* SpecLoad: config.load_settings() called directly on settings files that
\* hold a JSON object of known and unknown fields with values of every
\* kind, a JSON array, or text that is not JSON
\* ------------------------------------------------------------------------
\* the file: what json.load() makes of it and, for an object, its members
\* (the values 7, 2.5, false and "fast")
JsonDocs ==
    [form : {"object"}, members : IniTables(MaxIniKeys)]
        \cup [form : {"array", "malformed"}, members : {NoOverrides}]

\* whether a JSON value is of the type the dataclass declares for the field
HasType(k, v) ==
    CASE k \in IntFields   -> v.kind = "int"
      [] k \in FloatFields -> v.kind \in {"int", "float"}
      [] k \in BoolFields  -> v.kind = "bool"
      [] OTHER             -> FALSE

\* load_settings: whether it raises, and the fields it hands to
\* ScrollSettings(**filtered), every other field taking its default.
\* json.JSONDecodeError is caught and yields the defaults; an array has no
\* items() and the AttributeError is not caught; the dataclass constructor
\* stores what it is given.
load_settings(doc) ==
    CASE doc.form = "malformed" -> [raised |-> FALSE, filtered |-> NoOverrides]
      [] doc.form = "array"     -> [raised |-> TRUE, filtered |-> NoOverrides]
      [] OTHER ->
            [raised |-> FALSE,
             filtered |-> [k \in DOMAIN doc.members \cap DOMAIN BaseSettings |->
                              doc.members[k]]]

\* load_settings() with doc in the settings file
Load(doc) ==
    /\ probe' = [op |-> "load_settings", arg |-> doc,
                 out |-> load_settings(doc), held |-> 0]
    /\ UNCHANGED <<animation_lock, settings, env_vars, process_name_cache, engine_vars,
                   now, accel_vars, axis_vars, worker, hist_vars>>

\* the file is loaded once, when the program starts
NextLoad == \E doc \in JsonDocs : probe = NoProbe /\ Load(doc)

SpecLoad == InitImport /\ [][NextLoad]_vars

\* C29: loading never fails; the settings take from the file exactly the
\* known fields whose value is of the field's type, with that value; a
\* field of a wrong type and an unknown field are left out, so that the
\* field has its default.
C29_IngestValidates ==
    probe.op = "load_settings"
        => LET members == probe.arg.members
               out == probe.out
           IN  /\ ~out.raised
               /\ DOMAIN out.filtered =
                     {k \in DOMAIN members \cap DOMAIN BaseSettings : HasType(k, members[k])}
               /\ \A k \in DOMAIN out.filtered : out.filtered[k] = members[k]

\* C30: a worker resets its axis (target to 0, animating to false) only on
\* values that are still the axis's: no enqueue has changed the target or
\* restarted the animation since the worker read them, so that no enqueue
\* made while the worker runs is discarded.
C30_NoLostEnqueue ==
    [][\A a \in Axes :
          (animating[a] /\ ~animating'[a])
             => /\ worker[a].total_target = target_scroll[a]
                /\ worker[a].start_time = animation_start[a]]_vars

\* C31: an axis whose animating flag is set has a worker thread, in every
\* state, the states after stop() and a later start() included; so that an
\* enqueue, which starts a worker only when the flag is clear, is always
\* served by one.
C31_AnimatingHasWorker ==
    \A a \in Axes : animating[a] => worker[a].pc # "none"

\* ------------------------------------------------------------------------
\* SpecSlow: one animation of many frames, a long tail behind it: wheel
\* events of both directions on the vertical wheel, animation_time 92 ms
\* and tail_head_ratio 10; the clock moves while a worker sleeps, and a
\* worker wakes as soon as its sleep is over
\* ------------------------------------------------------------------------
MaxSlowEvents == 1
MaxSlowTime == 1096

SlowSettings ==
    [BaseSettings EXCEPT !.animation_time = 92, !.tail_head_ratio = 10 * Q]

InitSlow ==
    /\ settings = SlowSettings
    /\ foreground = [hwnd |-> 0, pid |-> 0]
    /\ processes = ProcTable
    /\ InitEngine

NextSlow ==
    \/ start
    \/ HookInstall(TRUE)
    \/ HookLoop
    \/ (now < MaxSlowTime /\ Quiet /\ Asleep /\ Tick(FRAME_INTERVAL))
    \/ \E ev \in LifeEvents : nevents < MaxSlowEvents /\ HookEvent(ev)
    \/ \E a \in Axes : Worker(a)

SpecSlow == InitSlow /\ [][NextSlow]_vars

\* the pixels the worker of axis a hands to SendInput in this step
EmittedNow(a) ==
    IF run[a].n > 0 /\ run'[a].n = 0
    THEN done'[a].emitted - run[a].emitted
    ELSE run'[a].emitted - run[a].emitted

\* C32: in a run of a single enqueue, whatever the worker emits has the
\* sign of the run's target: the carry of the sub-pixel remainder never
\* makes it emit against the direction of the run.
C32_MonotonicEmission ==
    [][\A a \in Axes :
          (run[a].n = 1 /\ run'[a].n \in {0, 1} /\ EmittedNow(a) # 0)
             => (EmittedNow(a) > 0) = (run[a].amount > 0)]_vars


\* ------------------------------------------------------------------------
\* C33: once an enqueue that took the reversal branch has returned, the
\* worker of its axis emits no delta in the old direction: every delta
\* emitted after the second enqueue of a run, when that enqueue was a
\* reversal, has the sign of that enqueue's amount
\* ------------------------------------------------------------------------
C33_ReversalImmediate ==
    [][\A a \in Axes :
          (/\ run[a].n = 2 /\ run[a].reversal
           /\ run'[a].n \in {0, 2}
           /\ EmittedNow(a) # 0)
             => (EmittedNow(a) > 0) = (run[a].amount - run[a].first > 0)]_vars


\* ------------------------------------------------------------------------
\* C34: an enqueue of amount A that does not take the reversal branch sets,
\* on an animating axis, target to target + A, current to 0 and the start
\* time to now, keeps animating true and starts no worker; on an idle axis
\* it sets target to A, current to 0, animating to true and the start time
\* to now, and starts exactly one worker.
\* ------------------------------------------------------------------------
C34_SameDirectionRetrigger ==
    [][\A a \in Axes :
          LET A == hook_result'.amount
          IN  (EnqueueStep(a)
                 /\ ~IsReversal(target_scroll[a], current_scroll[a], A))
                => /\ current_scroll'[a] = 0
                   /\ animation_start'[a] = now
                   /\ animating'[a]
                   /\ worker'[Other(a)] = worker[Other(a)]
                   /\ IF animating[a]
                      THEN /\ target_scroll'[a] = target_scroll[a] + A
                           /\ worker'[a] = worker[a]
                      ELSE /\ target_scroll'[a] = A
                           /\ worker[a].pc = "none"
                           /\ worker'[a].pc = "begin"]_vars

\* a second event in the direction of the first has arrived after the worker
\* had emitted part of the first: the target is the sum of the two amounts,
\* the emitted position is back at zero and the worker is the one of the
\* first event
C34_Witness ==
    \E a \in Axes :
        /\ hook_result.ret = "DROP" /\ hook_result.route = a
        /\ run[a].n = 2 /\ ~run[a].reversal /\ ~run[a].mixed
        /\ run[a].emitted # 0
        /\ target_scroll[a] = run[a].amount
        /\ current_scroll[a] = 0
        /\ animation_start[a] = now
        /\ worker[a].pc \in {"sleep", "top", "frame"}


\* ------------------------------------------------------------------------
\* SpecCallers: start(), stop() and toggle() called by the tray-menu thread
\* and by the UI main thread, statement by statement, together with every
\* hook thread the calls create (_hook_loop). The facade takes no lock.
\* ------------------------------------------------------------------------
MaxHookThreads == 2
MaxCallerCalls == 2

Ops == {"start", "stop", "toggle"}

HookIds == 1..Len(threads.hook)

\* the hook threads that have not ended, and those whose hook is installed
AliveHooks == {t \in HookIds : threads.hook[t].pc # "none"}
InstalledHooks == {t \in HookIds : threads.hook[t].hooked}

\* the method returns to caller c; toggle() returns ret
Return(c, ret) ==
    [threads EXCEPT !.caller[c].pc = "idle",
                    !.caller[c].ret = IF threads.caller[c].op = "toggle"
                                      THEN ret ELSE @]

CallerFrame ==
    UNCHANGED <<probe, animation_lock, settings, env_vars, process_name_cache,
                hook_handle, hook_thread, quit_posted, nstarts, now, accel_vars,
                axis_vars, worker, hist_vars>>

\* caller c enters a method; line 292: toggle() reads the running flag
Call(c, op) ==
    /\ threads.caller[c].pc = "idle"
    /\ threads' = [threads EXCEPT
                     !.caller[c].op = op,
                     !.caller[c].calls = @ + 1,
                     !.caller[c].found = IF op = "toggle" THEN running ELSE FALSE,
                     !.caller[c].mark = Len(threads.hook),
                     !.caller[c].op0 = threads.caller[c].op,
                     !.caller[c].found0 = threads.caller[c].found,
                     !.caller[c].mark0 = threads.caller[c].mark,
                     !.caller[c].pc = CASE op = "start" -> "start_check"
                                        [] op = "stop" -> "stop_check"
                                        [] OTHER -> IF running THEN "stop_check"
                                                    ELSE "start_check"]
    /\ UNCHANGED <<running, status_reported>>
    /\ CallerFrame

\* a start() that goes on whatever the running flag
StartCheck_unguarded(c) ==
    /\ threads.caller[c].pc = "start_check"
    /\ threads' = [threads EXCEPT !.caller[c].pc = "start_set"]
    /\ UNCHANGED <<running, status_reported>>
    /\ CallerFrame

\* lines 260-261: if self._running: return
StartCheck(c) ==
    /\ threads.caller[c].pc = "start_check"
    /\ threads' = IF running THEN Return(c, TRUE)
                  ELSE [threads EXCEPT !.caller[c].pc = "start_set"]
    /\ UNCHANGED <<running, status_reported>>
    /\ CallerFrame

\* line 263: self._running = True
StartSet(c) ==
    /\ threads.caller[c].pc = "start_set"
    /\ running' = TRUE
    /\ threads' = [threads EXCEPT !.caller[c].pc = "start_thread"]
    /\ UNCHANGED status_reported
    /\ CallerFrame

\* lines 264-265: the hook thread is created and started
StartThread(c) ==
    /\ threads.caller[c].pc = "start_thread"
    /\ Len(threads.hook) < MaxHookThreads
    /\ threads' = [threads EXCEPT
                     !.caller[c].pc = "start_report",
                     !.hook = Append(@, [pc |-> "install", hooked |-> FALSE,
                                         quit |-> FALSE, failed |-> FALSE]),
                     !.hook_thread = Len(threads.hook) + 1]
    /\ UNCHANGED <<running, status_reported>>
    /\ CallerFrame

\* lines 267-268: the status callback is called and start() returns
StartReport(c) ==
    /\ threads.caller[c].pc = "start_report"
    /\ threads' = Return(c, TRUE)
    /\ status_reported' = TRUE
    /\ UNCHANGED running
    /\ CallerFrame

\* lines 272-273: if not self._running: return
StopCheck(c) ==
    /\ threads.caller[c].pc = "stop_check"
    /\ threads' = IF ~running THEN Return(c, FALSE)
                  ELSE [threads EXCEPT !.caller[c].pc = "stop_clear"]
    /\ UNCHANGED <<running, status_reported>>
    /\ CallerFrame

\* line 275: self._running = False
StopClear(c) ==
    /\ threads.caller[c].pc = "stop_clear"
    /\ running' = FALSE
    /\ threads' = [threads EXCEPT !.caller[c].pc = "stop_post"]
    /\ UNCHANGED status_reported
    /\ CallerFrame

\* lines 279-282: WM_QUIT is posted to the thread named by _hook_thread_id
\* when a hook handle is set; posting to a thread that has ended fails
StopPost(c) ==
    /\ threads.caller[c].pc = "stop_post"
    /\ LET t == threads.hook_thread_id
       IN  threads' = [threads EXCEPT
                         !.caller[c].pc = "stop_join",
                         !.hook = IF threads.hook_handle # 0 /\ t \in AliveHooks
                                  THEN [@ EXCEPT ![t].quit = TRUE] ELSE @]
    /\ UNCHANGED <<running, status_reported>>
    /\ CallerFrame

\* lines 284-288: join(timeout=5) returns when the thread named by
\* _hook_thread has ended, or after 5 s when it is blocked in GetMessageW
\* with no message to come; the status callback is called and stop() returns
StopJoin(c) ==
    /\ threads.caller[c].pc = "stop_join"
    /\ LET t == threads.hook_thread
       IN  \/ t \notin AliveHooks
           \/ t \in AliveHooks /\ threads.hook[t].pc = "wait" /\ ~threads.hook[t].quit
    /\ threads' = Return(c, FALSE)
    /\ status_reported' = FALSE
    /\ UNCHANGED running
    /\ CallerFrame

\* lines 305-319 in hook thread t: the thread id is stored and
\* SetWindowsHookExW succeeds or fails
HookInstallOf(t, ok) ==
    /\ t \in HookIds /\ threads.hook[t].pc = "install"
    /\ IF ok
       THEN /\ threads' = [threads EXCEPT !.hook_thread_id = t,
                                          !.hook_handle = t,
                                          !.hook[t].hooked = TRUE,
                                          !.hook[t].pc = "loop"]
            /\ UNCHANGED running
       ELSE /\ threads' = [threads EXCEPT !.hook_thread_id = t,
                                          !.hook_handle = 0,
                                          !.hook[t].failed = TRUE,
                                          !.hook[t].pc = "none"]
            /\ running' = FALSE
    /\ UNCHANGED status_reported
    /\ CallerFrame

\* line 325 in hook thread t: while self._running
HookLoopOf(t) ==
    /\ t \in HookIds /\ threads.hook[t].pc = "loop"
    /\ threads' = [threads EXCEPT
                     !.hook[t].pc = IF running THEN "wait" ELSE "cleanup"]
    /\ UNCHANGED <<running, status_reported>>
    /\ CallerFrame

\* lines 326-328 in hook thread t: GetMessageW returns 0 for WM_QUIT
HookQuitOf(t) ==
    /\ t \in HookIds /\ threads.hook[t].pc = "wait" /\ threads.hook[t].quit
    /\ threads' = [threads EXCEPT !.hook[t].pc = "cleanup",
                                  !.hook[t].quit = FALSE]
    /\ UNCHANGED <<running, status_reported>>
    /\ CallerFrame

\* lines 331-335 in hook thread t: the hook named by _hook_handle, if any, is
\* removed and the handle cleared; the thread ends, and the system removes
\* the hook of a thread that ends
HookCleanupOf(t) ==
    /\ t \in HookIds /\ threads.hook[t].pc = "cleanup"
    /\ LET h == threads.hook_handle
       IN  threads' = [threads EXCEPT
                         !.hook_handle = 0,
                         !.hook = [u \in HookIds |->
                                     [@[u] EXCEPT
                                        !.hooked = @ /\ u # h /\ u # t,
                                        !.pc = IF u = t THEN "none" ELSE @]]]
    /\ UNCHANGED <<running, status_reported>>
    /\ CallerFrame

InitCallers ==
    /\ settings = BaseSettings
    /\ foreground = [hwnd |-> 0, pid |-> 0]
    /\ processes = ProcTable
    /\ InitEngine

NextCallers ==
    \/ \E c \in Callers, op \in Ops :
          threads.caller[c].calls < MaxCallerCalls /\ Call(c, op)
    \/ \E c \in Callers : StartCheck(c)
    \/ \E c \in Callers : StartSet(c)
    \/ \E c \in Callers : StartThread(c)
    \/ \E c \in Callers : StartReport(c)
    \/ \E c \in Callers : StopCheck(c)
    \/ \E c \in Callers : StopClear(c)
    \/ \E c \in Callers : StopPost(c)
    \/ \E c \in Callers : StopJoin(c)
    \/ \E t \in HookIds, ok \in BOOLEAN : HookInstallOf(t, ok)
    \/ \E t \in HookIds : HookLoopOf(t)
    \/ \E t \in HookIds : HookQuitOf(t)
    \/ \E t \in HookIds : HookCleanupOf(t)

SpecCallers == InitCallers /\ [][NextCallers]_vars

\* C35: whatever the interleaving of start(), stop() and toggle() calls of
\* the tray-menu thread and the UI main thread, at most one hook thread
\* exists and at most one low-level hook is installed at any time.
C35_OneHookWorker ==
    /\ Cardinality(AliveHooks) <= 1
    /\ Cardinality(InstalledHooks) <= 1


\* ------------------------------------------------------------------------
\* SpecAxes: the two animators in flight together, from the enqueues to the
\* end of each animation, under the events and settings of SpecRoute
\* ------------------------------------------------------------------------
MaxAxesEvents == 2
MaxAxesTime == 1008

NextAxes ==
    \/ start
    \/ \E ok \in BOOLEAN : HookInstall(ok)
    \/ HookLoop
    \/ (now < MaxAxesTime /\ Quiet /\ Tick(FRAME_INTERVAL))
    \/ \E ev \in RouteEvents : nevents < MaxAxesEvents /\ HookEvent(ev)
    \/ \E a \in Axes : Worker(a)

SpecAxes == InitRoute /\ [][NextAxes]_vars

\* C36: an enqueue on an axis, and a step of its worker (a frame, its end),
\* leave the other axis's target, current, animating flag, start time and
\* worker as they were, and what a worker emits is an event of its own axis.
C36_AxisIndependence ==
    [][\A a \in Axes :
          LET b == Other(a)
              worker_step == nevents' = nevents /\ worker'[a] # worker[a]
          IN  /\ (EnqueueStep(a) \/ worker_step)
                    => /\ target_scroll'[b] = target_scroll[b]
                       /\ current_scroll'[b] = current_scroll[b]
                       /\ animating'[b] = animating[b]
                       /\ animation_start'[b] = animation_start[b]
                       /\ current_app_params'[b] = current_app_params[b]
                       /\ worker'[b] = worker[b]
              /\ (worker_step /\ nsent' # nsent)
                    => last_input'.horizontal = (a = "h")]_vars

\* the horizontal animation has run to its end and left its axis idle while
\* the vertical one, enqueued later, is in flight with the target of its own
\* event and the position its own frames have reached
C36_Witness ==
    /\ done["h"].n = 1 /\ done["h"].emitted # 0 /\ AxisIdle("h")
    /\ animating["v"] /\ run["v"].n = 1
    /\ target_scroll["v"] = run["v"].amount
    /\ current_scroll["v"] # 0
    /\ current_scroll["v"] = run["v"].emitted * Q


\* ------------------------------------------------------------------------
\* SpecLock: the animation lock followed through the enqueue. The callback
\* is taken to the last statement inside `with self._animation_lock` (line
\* 531) and, in a second step, out of the block; a with block of the
\* animator holds assignments only and is one step, taken when the lock is
\* free.
\* ------------------------------------------------------------------------
MaxLockEvents == 2
MaxLockTime == 1008

\* the callback for event ev, up to the end of the with block of the
\* enqueue; the direct route takes no lock
HookEventLocked(ev) ==
    /\ hook_handle /\ hook_thread = "wait"
    /\ animation_lock = "free"
    /\ nevents' = nevents + 1
    /\ low_level_mouse_proc(ev, TRUE)
    /\ animation_lock' = IF hook_result'.route \in Axes THEN "hook" ELSE "free"
    /\ UNCHANGED <<probe, settings, env_vars, running, hook_handle, hook_thread,
                   quit_posted, status_reported, nstarts, threads, now>>

\* the callback leaves the with block and returns
HookRelease ==
    /\ animation_lock = "hook"
    /\ animation_lock' = "free"
    /\ UNCHANGED <<probe, settings, env_vars, process_name_cache, engine_vars, now,
                   accel_vars, axis_vars, worker, hist_vars>>

\* the next step of the worker of axis a enters a with block: the read at the
\* top of a frame, the resets and the position update
TakesLock(a) ==
    LET w == worker[a]
    IN  \/ w.pc = "top" /\ running
        \/ w.pc = "frame" /\ Negligible(w.total_target - w.current)
        \/ w.pc = "update"
        \/ w.pc = "final" /\ w.progress >= Q

NextLock ==
    \/ start
    \/ HookInstall(TRUE)
    \/ HookLoop
    \/ (now < MaxLockTime /\ Quiet /\ animation_lock = "free" /\ Tick(FRAME_INTERVAL))
    \/ \E ev \in RouteEvents : nevents < MaxLockEvents /\ HookEventLocked(ev)
    \/ HookRelease
    \/ \E a \in Axes : (TakesLock(a) => animation_lock = "free") /\ Worker(a)

SpecLock == InitRoute /\ [][NextLock]_vars

\* C37: no thread emits a synthetic event, goes to sleep or starts a worker
\* thread while it holds the animation lock: the hook thread holds it neither
\* after starting a worker thread nor when it emits on the direct route, and
\* a worker holds it neither when it emits nor when it goes to sleep.
C37_LockNotHeldAcrossCalls ==
    [][/\ \A a \in Axes :
            /\ (worker[a].pc = "none" /\ worker'[a].pc = "begin")
                  => animation_lock' # "hook"
            /\ (nevents' = nevents /\ nsent' # nsent /\ worker'[a] # worker[a])
                  => (animation_lock # a /\ animation_lock' # a)
            /\ (worker[a].pc # "sleep" /\ worker'[a].pc = "sleep")
                  => animation_lock' # a
       /\ (nevents' # nevents /\ nsent' # nsent) => animation_lock' # "hook"]_vars


\* ------------------------------------------------------------------------
\* SpecHandles: the resolver called directly, in any order and any number
\* of times, for processes of every kind: named, not to be opened, with an
\* image name that cannot be read, and with a read that raises
\* ------------------------------------------------------------------------
MaxHandlePid == 5

HandleProcs ==
    [pid \in 1..MaxHandlePid |->
        CASE pid % 5 = 1 -> [open |-> TRUE, query |-> TRUE, raises |-> FALSE,
                             path |-> <<"d", "\\", "a", "B">>]
          [] pid % 5 = 2 -> [open |-> TRUE, query |-> TRUE, raises |-> FALSE,
                             path |-> <<"B", "a">>]
          [] pid % 5 = 3 -> [open |-> FALSE, query |-> FALSE, raises |-> FALSE,
                             path |-> <<>>]
          [] pid % 5 = 4 -> [open |-> TRUE, query |-> FALSE, raises |-> FALSE,
                             path |-> <<>>]
          [] OTHER       -> [open |-> TRUE, query |-> TRUE, raises |-> TRUE,
                             path |-> <<"a">>]]

InitHandles ==
    /\ settings = BaseSettings
    /\ foreground = [hwnd |-> 0, pid |-> 0]
    /\ processes = HandleProcs
    /\ InitEngine

NextHandles == \E pid \in 1..MaxHandlePid : Lookup(pid)

SpecHandles == InitHandles /\ [][NextHandles]_vars

\* C38: every process handle a lookup opens is closed before the lookup
\* returns, when the name is read, when the read fails and when it raises:
\* after any number of lookups the resolver holds no process handle.
C38_HandleHygiene == Looked => probe.held = 0

\* every process has been looked up, the last one being the process whose
\* image-name read raises: it was opened, its name is the empty string, and
\* no handle is held
C38_Witness ==
    /\ Looked
    /\ Len(process_name_cache) = MaxHandlePid
    /\ processes[probe.arg[1]].open /\ processes[probe.arg[1]].raises
    /\ probe.out = << <<>>, TRUE >>
    /\ probe.held = 0


\* ------------------------------------------------------------------------
\* C39: an enqueue whose amount has the sign of the axis's target is not
\* handled as a reversal: the target is incremented by the amount and the
\* velocity stays the one the accelerator computed for the event.
\* ------------------------------------------------------------------------
C39_SameSignNeverReversal ==
    [][\A a \in Axes :
          LET A == hook_result'.amount
              p == current_app_params'[a]
          IN  (/\ EnqueueStep(a)
               /\ target_scroll[a] # 0
               /\ (A > 0) = (target_scroll[a] > 0))
                 => /\ target_scroll'[a] = target_scroll[a] + A
                    /\ scroll_velocity' * p.step_size = Abs(A)]_vars


\* ------------------------------------------------------------------------
\* SpecToggle: start(), stop() and toggle() called one after the other by
\* one thread, while the hook threads the calls create run and their hook
\* installation succeeds or fails
\* ------------------------------------------------------------------------
MaxToggleCalls == 4

NextToggle ==
    \/ \E op \in Ops : threads.caller["ui"].calls < MaxToggleCalls /\ Call("ui", op)
    \/ StartCheck("ui")
    \/ StartSet("ui")
    \/ StartThread("ui")
    \/ StartReport("ui")
    \/ StopCheck("ui")
    \/ StopClear("ui")
    \/ StopPost("ui")
    \/ StopJoin("ui")
    \/ \E t \in HookIds, ok \in BOOLEAN : HookInstallOf(t, ok)
    \/ \E t \in HookIds : HookLoopOf(t)
    \/ \E t \in HookIds : HookQuitOf(t)
    \/ \E t \in HookIds : HookCleanupOf(t)

SpecToggle == InitCallers /\ [][NextToggle]_vars

\* the caller executes the test at the head of start() / of stop()
StartTested ==
    threads.caller["ui"].pc = "start_check" /\ threads'.caller["ui"].pc # "start_check"
StopTested ==
    threads.caller["ui"].pc = "stop_check" /\ threads'.caller["ui"].pc # "stop_check"

\* toggle() returns in this step; it is the second of two toggles in a row
ToggleReturns ==
    /\ threads.caller["ui"].op = "toggle"
    /\ threads.caller["ui"].pc # "idle" /\ threads'.caller["ui"].pc = "idle"
ToggledTwice == threads.caller["ui"].op0 = "toggle"

\* a hook thread started since the caller's call before last failed to
\* install its hook; one started by the call that returns did
InstallFailedSince(n) == \E t \in HookIds : t > n /\ threads'.hook[t].failed

\* the calls that find nothing to do return having changed nothing
NoOpCalls ==
    /\ (StartTested /\ running)
          => /\ threads'.caller["ui"].pc = "idle"
             /\ running' /\ status_reported' = status_reported
             /\ threads'.hook = threads.hook
             /\ threads'.hook_thread = threads.hook_thread
    /\ (StopTested /\ ~running)
          => /\ threads'.caller["ui"].pc = "idle"
             /\ ~running' /\ status_reported' = status_reported
             /\ threads'.hook = threads.hook
             /\ threads'.hook_thread = threads.hook_thread

====
